---------------------------- MODULE Spec2Model ----------------------------
(***************************************************************************)
(* Wikipedia MCP tool server (solution/servers/wikipedia_server.py and     *)
(* solution/advanced/wikipedia_server.py).                                 *)
(*                                                                         *)
(* A Python str is a sequence of one-character strings.  Every tool is a   *)
(* pure operator of its arguments and of the answers its collaborators     *)
(* give (search service, article source, prompt); it yields the outcome    *)
(* (return value or exception) and the ordered list of the external calls  *)
(* it made.  The server handles one request at a time: a Call action runs  *)
(* one whole handler, Respond hands the outcome back and returns to idle.  *)
(***************************************************************************)
EXTENDS Integers, Sequences, FiniteSets, TLC

VARIABLES
    call,      \* the request being served: tool name, string argument, integer argument
    env,       \* what the collaborators answered during this request
    outcome,   \* how the handler ended: return value or exception
    log,       \* the external calls the handler made, in order
    loop,        \* the chat client: "created", "awaiting" input or "terminated"
    last_result, \* MCPResearchAssistant.last_result
    turn,        \* what the last iteration of the chat loop read, passed and showed
    io,          \* how often the chat client read the console and ran the agent
    transcript,  \* the turns answered since the session start or the last clear
    client,      \* which chat client runs: "cli_client" or "03_polish"
    cleared      \* whether a clear command came after the last answered turn

server_vars == <<call, env, outcome, log>>

client_vars == <<loop, last_result, turn, io, transcript, client, cleared>>

vars ==
    <<call, env, outcome, log, loop, last_result, turn, io, transcript, client, cleared>>

---------------------------------------------------------------------------
(* Bounds of the explored inputs *)

\* longest list of pages the search service answers with
MaxPages == 3

\* how far beyond max_length the article texts reach
MaxOver == 2

\* how many consecutive max_length values from 100 upwards are explored
MaxLengthSpan == 5

\* how many inputs the chat loop reads in the runs explored
MaxInputs == 4

---------------------------------------------------------------------------
(* Python str operations *)

Whitespace == {" ", "\t", "\n", "\r"}

UpperCase ==
    <<"A", "B", "C", "D", "E", "F", "G", "H", "I", "J", "K", "L", "M", "N", "O", "P",
    "Q", "R", "S", "T", "U", "V", "W", "X", "Y", "Z">>

LowerCase ==
    <<"a", "b", "c", "d", "e", "f", "g", "h", "i", "j", "k", "l", "m", "n", "o", "p",
    "q", "r", "s", "t", "u", "v", "w", "x", "y", "z">>

\* str.lower() on one character
LowerChar(c) ==
    IF \E i \in 1..26 : UpperCase[i] = c
    THEN LowerCase[CHOOSE i \in 1..26 : UpperCase[i] = c]
    ELSE c

\* str.lower()
Lower(s) == [i \in 1..Len(s) |-> LowerChar(s[i])]

\* str.strip(): drop leading and trailing whitespace
Strip(s) ==
    LET keep == {i \in 1..Len(s) : s[i] \notin Whitespace}
    IN  IF keep = {} THEN <<>>
        ELSE LET lo == CHOOSE i \in keep : \A j \in keep : i <= j
                 hi == CHOOSE i \in keep : \A j \in keep : i >= j
             IN  SubSeq(s, lo, hi)

\* needle in hay
Contains(hay, needle) ==
    \E i \in 0..(Len(hay) - Len(needle)) : SubSeq(hay, i + 1, i + Len(needle)) = needle

\* str.endswith
EndsWith(s, suffix) ==
    /\ Len(suffix) <= Len(s)
    /\ SubSeq(s, Len(s) - Len(suffix) + 1, Len(s)) = suffix

\* str.rfind(c) for a one-character c: 0-based index of the last occurrence, -1 if none
RFind(s, c) ==
    LET hits == {i \in 1..Len(s) : s[i] = c}
    IN  IF hits = {} THEN -1
        ELSE (CHOOSE i \in hits : \A j \in hits : i >= j) - 1

\* s[:n] for n >= 0
Prefix(s, n) == SubSeq(s, 1, IF n < Len(s) THEN n ELSE Len(s))

\* max(a, b)
Max(a, b) == IF a >= b THEN a ELSE b

Digits == <<"0", "1", "2", "3", "4", "5", "6", "7", "8", "9">>

IsDigit(c) == \E i \in 1..10 : Digits[i] = c

DigitValue(c) == (CHOOSE i \in 1..10 : Digits[i] = c) - 1

RECURSIVE DigitsValue(_)
DigitsValue(s) ==
    IF s = <<>> THEN 0
    ELSE 10 * DigitsValue(SubSeq(s, 1, Len(s) - 1)) + DigitValue(s[Len(s)])

\* int(s) for an already stripped s: an optional sign and decimal digits;
\* ok = FALSE stands for the ValueError int() raises
ParseInt(s) ==
    LET signed == s # <<>> /\ s[1] \in {"+", "-"}
        body   == IF signed THEN Tail(s) ELSE s
    IN  IF body # <<>> /\ \A i \in 1..Len(body) : IsDigit(body[i])
        THEN [ok |-> TRUE,
              value |-> IF signed /\ s[1] = "-" THEN 0 - DigitsValue(body)
                        ELSE DigitsValue(body)]
        ELSE [ok |-> FALSE, value |-> 0]

\* str(n) for n >= 0
RECURSIVE IntToStr(_)
IntToStr(n) ==
    IF n < 10 THEN <<Digits[n + 1]>>
    ELSE IntToStr(n \div 10) \o <<Digits[(n % 10) + 1]>>

---------------------------------------------------------------------------
(* String literals of the servers *)

MsgQueryEmpty ==
    <<"Q", "u", "e", "r", "y", " ", "c", "a", "n", "n", "o", "t", " ", "b", "e", " ",
    "e", "m", "p", "t", "y">>

MsgLimitRange ==
    <<"L", "i", "m", "i", "t", " ", "m", "u", "s", "t", " ", "b", "e", " ", "b", "e",
    "t", "w", "e", "e", "n", " ", "1", " ", "a", "n", "d", " ", "1", "0">>

PrefixSearchFailedRequest ==
    <<"F", "a", "i", "l", "e", "d", " ", "t", "o", " ", "s", "e", "a", "r", "c", "h",
    " ", "W", "i", "k", "i", "p", "e", "d", "i", "a", ":", " ">>

PrefixSearchFailed ==
    <<"S", "e", "a", "r", "c", "h", " ", "f", "a", "i", "l", "e", "d", ":", " ">>

MsgTitleEmpty ==
    <<"A", "r", "t", "i", "c", "l", "e", " ", "t", "i", "t", "l", "e", " ", "c", "a",
    "n", "n", "o", "t", " ", "b", "e", " ", "e", "m", "p", "t", "y">>

MsgSentencesRange ==
    <<"S", "e", "n", "t", "e", "n", "c", "e", "s", " ", "m", "u", "s", "t", " ", "b",
    "e", " ", "b", "e", "t", "w", "e", "e", "n", " ", "1", " ", "a", "n", "d", " ",
    "1", "0">>

MsgMaxLengthRange ==
    <<"m", "a", "x", "_", "l", "e", "n", "g", "t", "h", " ", "m", "u", "s", "t", " ",
    "b", "e", " ", "b", "e", "t", "w", "e", "e", "n", " ", "1", "0", "0", " ", "a",
    "n", "d", " ", "1", "0", "0", "0", "0">>

PrefixArticle ==
    <<"A", "r", "t", "i", "c", "l", "e", " ", "'">>

SuffixNotFound ==
    <<"'", " ", "n", "o", "t", " ", "f", "o", "u", "n", "d", " ", "o", "n", " ", "W",
    "i", "k", "i", "p", "e", "d", "i", "a">>

PrefixNoSummary ==
    <<"N", "o", " ", "s", "u", "m", "m", "a", "r", "y", " ", "a", "v", "a", "i", "l",
    "a", "b", "l", "e", " ", "f", "o", "r", " ", "a", "r", "t", "i", "c", "l", "e",
    " ", "'">>

PrefixNoContent ==
    <<"N", "o", " ", "c", "o", "n", "t", "e", "n", "t", " ", "a", "v", "a", "i", "l",
    "a", "b", "l", "e", " ", "f", "o", "r", " ", "a", "r", "t", "i", "c", "l", "e",
    " ", "'">>

Quote ==
    <<"'">>

PrefixFailedSummary ==
    <<"F", "a", "i", "l", "e", "d", " ", "t", "o", " ", "g", "e", "t", " ", "a", "r",
    "t", "i", "c", "l", "e", " ", "s", "u", "m", "m", "a", "r", "y", ":", " ">>

PrefixFailedContent ==
    <<"F", "a", "i", "l", "e", "d", " ", "t", "o", " ", "g", "e", "t", " ", "a", "r",
    "t", "i", "c", "l", "e", " ", "c", "o", "n", "t", "e", "n", "t", ":", " ">>

PrefixFailedInfo ==
    <<"F", "a", "i", "l", "e", "d", " ", "t", "o", " ", "g", "e", "t", " ", "a", "r",
    "t", "i", "c", "l", "e", " ", "i", "n", "f", "o", ":", " ">>

NotFoundNeedle ==
    <<"n", "o", "t", " ", "f", "o", "u", "n", "d">>

TruncationMarker ==
    <<"\n", "\n", "[", "C", "o", "n", "t", "e", "n", "t", " ", "t", "r", "u", "n", "c",
    "a", "t", "e", "d", ".", ".", ".", "]">>

Ellipsis ==
    <<".", ".", ".">>

PrefixNoResults ==
    <<"N", "o", " ", "W", "i", "k", "i", "p", "e", "d", "i", "a", " ", "a", "r", "t",
    "i", "c", "l", "e", "s", " ", "f", "o", "u", "n", "d", " ", "f", "o", "r", " ",
    "'">>

PrefixInvalidSelection ==
    <<"I", "n", "v", "a", "l", "i", "d", " ", "s", "e", "l", "e", "c", "t", "i", "o",
    "n", " ", "'">>

MidInvalidSelection ==
    <<"'", ".", " ", "P", "l", "e", "a", "s", "e", " ", "e", "n", "t", "e", "r", " ",
    "a", " ", "t", "i", "t", "l", "e", " ", "n", "a", "m", "e", " ", "o", "r", " ",
    "n", "u", "m", "b", "e", "r", " ", "1", "-">>

MsgCancelled ==
    <<"S", "e", "a", "r", "c", "h", " ", "c", "a", "n", "c", "e", "l", "l", "e", "d",
    " ", "o", "r", " ", "i", "n", "v", "a", "l", "i", "d", " ", "s", "e", "l", "e",
    "c", "t", "i", "o", "n", ".">>

---------------------------------------------------------------------------
(* Outcomes and external calls *)

\* one external call: the collaborator's entry point and what was passed to it
Event(api, arg) == [api |-> api, arg |-> arg]

\* the handler returned value
Return(value, events) ==
    [kind |-> "return", exc |-> "", value |-> value, log |-> events]

\* the handler raised exc(msg)
Raise(exc, msg, events) ==
    [kind |-> "raise", exc |-> exc, value |-> msg, log |-> events]

\* number of calls to api among events
CountCalls(events, api) == Cardinality({i \in 1..Len(events) : events[i].api = api})

---------------------------------------------------------------------------
(* search_wikipedia *)

\* faulty variant: a whitespace-only query passes
QueryEmptyNoStrip(query) == query = <<>>

\* if not query or not query.strip()
QueryEmpty(query) == query = <<>> \/ Strip(query) = <<>>

\* faulty variant: the lower end of the range is off by one
LimitInvalidLow(limit) == limit < 0 \/ limit > 10

\* if limit < 1 or limit > 10
LimitInvalid(limit) == limit < 1 \/ limit > 10

\* faulty variant: the titles come out in reverse order
ExtractTitlesReversed(pages) == [i \in 1..Len(pages) |-> pages[Len(pages) + 1 - i]]

\* titles = [page["title"] for page in data.get("pages", [])]
ExtractTitles(pages) == [i \in 1..Len(pages) |-> pages[i]]

\* data.get("pages", []): the pages of the body, none if it has no such key
DataGetPages(resp) == IF resp.stage = "no pages key" THEN <<>> ELSE resp.pages

\* The search service's answer resp: kind "ok" with the pages it lists, or the
\* class of the exception raised while requesting (requests.get), checking the
\* status (raise_for_status) or reading the body (json, pages), with its text.
search_wikipedia(query, limit, resp) ==
    IF QueryEmpty(query) THEN Raise("ValueError", MsgQueryEmpty, <<>>)
    ELSE IF LimitInvalid(limit) THEN Raise("ValueError", MsgLimitRange, <<>>)
    ELSE LET request == Event("requests.get", [q |-> Strip(query), limit |-> limit])
         IN  CASE resp.kind = "ok" ->
                    Return(ExtractTitles(DataGetPages(resp)),
                           <<request, Event("logger.info", Len(DataGetPages(resp)))>>)
               [] resp.kind = "RequestException" ->
                    Raise("ValueError", PrefixSearchFailedRequest \o resp.err,
                          <<request, Event("logger.error", resp.err)>>)
               [] OTHER ->
                    Raise("ValueError", PrefixSearchFailed \o resp.err,
                          <<request, Event("logger.error", resp.err)>>)

---------------------------------------------------------------------------
(* Article tools of solution/servers/wikipedia_server.py *)

\* faulty variant: a whitespace-only title passes
TitleEmptyNoStrip(title) == title = <<>>

\* if not title or not title.strip()
TitleEmpty(title) == title = <<>> \/ Strip(title) = <<>>

\* if sentences < 1 or sentences > 10
SentencesInvalid(sentences) == sentences < 1 \/ sentences > 10

\* if max_length < 100 or max_length > 10000
MaxLengthInvalid(max_length) == max_length < 100 \/ max_length > 10000

\* page = wiki.page(title.strip())
Lookup(title) == Event("wiki.page", Strip(title))

\* raise ValueError(f"Article '{title}' not found on Wikipedia")
NotFoundMessage(title) == PrefixArticle \o title \o SuffixNotFound

\* faulty variant: every exception is wrapped, the not-found one too
RewrapAlways(r, prefix) ==
    IF r.kind # "raise" THEN r
    ELSE Raise("ValueError", prefix \o r.value,
               r.log \o <<Event("logger.error", r.value)>>)

\* the except clause shared by the three tools: an exception whose text holds
\* "not found" (in any case) is re-raised as it is, any other is logged and
\* replaced by ValueError(prefix + text)
Rewrap(r, prefix) ==
    IF r.kind # "raise" THEN r
    ELSE IF Contains(Lower(r.value), NotFoundNeedle) THEN r
    ELSE Raise("ValueError", prefix \o r.value,
               r.log \o <<Event("logger.error", r.value)>>)

\* str.split(c)
RECURSIVE Split(_, _)
Split(s, c) ==
    IF \A i \in 1..Len(s) : s[i] # c THEN <<s>>
    ELSE LET i == CHOOSE k \in 1..Len(s) : s[k] = c /\ \A j \in 1..(k - 1) : s[j] # c
         IN  <<SubSeq(s, 1, i - 1)>> \o Split(SubSeq(s, i + 1, Len(s)), c)

\* sep.join(parts)
RECURSIVE Join(_, _)
Join(parts, sep) ==
    IF parts = <<>> THEN <<>>
    ELSE IF Len(parts) = 1 THEN parts[1]
    ELSE parts[1] \o sep \o Join(Tail(parts), sep)

NonEmpty(s) == s # <<>>

\* sentences_list = [s.strip() for s in summary.split(".") if s.strip()]
SentencesList(summary) ==
    LET parts == Split(summary, ".")
    IN  SelectSeq([i \in 1..Len(parts) |-> Strip(parts[i])], NonEmpty)

\* faulty variant: the slice keeps one sentence too many
LimitSentencesOneMore(summary, sentences) ==
    LET limited_sentences == Prefix(SentencesList(summary), sentences + 1)
        result == Join(limited_sentences, <<".", " ">>)
    IN  IF result # <<>> /\ ~EndsWith(result, <<".">>) THEN result \o <<".">>
        ELSE result

\* the summary cut to the requested number of sentences
LimitSentences(summary, sentences) ==
    LET limited_sentences == Prefix(SentencesList(summary), sentences)
        result == Join(limited_sentences, <<".", " ">>)
    IN  IF result # <<>> /\ ~EndsWith(result, <<".">>) THEN result \o <<".">>
        ELSE result

\* the try block of get_article_summary
SummaryBody(title, sentences, page) ==
    CASE page.kind = "error" -> Raise(page.exc, page.err, <<Lookup(title)>>)
      [] page.kind = "absent" ->
            Raise("ValueError", NotFoundMessage(title), <<Lookup(title)>>)
      [] page.summary = <<>> ->
            Raise("ValueError", PrefixNoSummary \o title \o Quote, <<Lookup(title)>>)
      [] OTHER ->
            Return(LimitSentences(page.summary, sentences),
                   <<Lookup(title), Event("logger.info", title)>>)

get_article_summary(title, sentences, page) ==
    IF TitleEmpty(title) THEN Raise("ValueError", MsgTitleEmpty, <<>>)
    ELSE IF SentencesInvalid(sentences) THEN Raise("ValueError", MsgSentencesRange, <<>>)
    ELSE Rewrap(SummaryBody(title, sentences, page), PrefixFailedSummary)

\* faulty variant: a break point exactly at 80% counts as a clean break
ExceedsThresholdInclusive(break_point, max_length) == 5 * break_point >= 4 * max_length

\* if break_point > max_length * 0.8: for an integer break_point and every
\* max_length in 100..10000 the float comparison agrees with 5 * bp > 4 * max_length
ExceedsThreshold(break_point, max_length) == 5 * break_point > 4 * max_length

\* faulty variant: a text of exactly max_length characters is truncated too
TruncateContentEager(content, max_length) ==
    IF Len(content) >= max_length
    THEN LET truncated == Prefix(content, max_length)
             break_point == Max(RFind(truncated, "."), RFind(truncated, "\n"))
         IN  IF 5 * break_point > 4 * max_length
             THEN Prefix(content, break_point + 1) \o TruncationMarker
             ELSE truncated \o Ellipsis \o TruncationMarker
    ELSE content

\* faulty variant: the hard cut keeps the whole text instead of its prefix
TruncateContentUncut(content, max_length) ==
    IF Len(content) > max_length
    THEN LET truncated == Prefix(content, max_length)
             break_point == Max(RFind(truncated, "."), RFind(truncated, "\n"))
         IN  IF 5 * break_point > 4 * max_length
             THEN Prefix(content, break_point + 1) \o TruncationMarker
             ELSE content \o Ellipsis \o TruncationMarker
    ELSE content

\* faulty variant: the hard cut ends with "..." alone
TruncateContentBareEllipsis(content, max_length) ==
    IF Len(content) > max_length
    THEN LET truncated == Prefix(content, max_length)
             break_point == Max(RFind(truncated, "."), RFind(truncated, "\n"))
         IN  IF 5 * break_point > 4 * max_length
             THEN Prefix(content, break_point + 1) \o TruncationMarker
             ELSE truncated \o Ellipsis
    ELSE content

\* the truncation of get_article_content
TruncateContent(content, max_length) ==
    IF Len(content) > max_length
    THEN LET truncated == Prefix(content, max_length)
             last_period == RFind(truncated, ".")
             last_newline == RFind(truncated, "\n")
             break_point == Max(last_period, last_newline)
         IN  IF ExceedsThreshold(break_point, max_length)
             THEN Prefix(content, break_point + 1) \o TruncationMarker
             ELSE truncated \o Ellipsis \o TruncationMarker
    ELSE content

\* the try block of get_article_content
ContentBody(title, max_length, page) ==
    CASE page.kind = "error" -> Raise(page.exc, page.err, <<Lookup(title)>>)
      [] page.kind = "absent" ->
            Raise("ValueError", NotFoundMessage(title), <<Lookup(title)>>)
      [] page.text = <<>> ->
            Raise("ValueError", PrefixNoContent \o title \o Quote, <<Lookup(title)>>)
      [] OTHER ->
            Return(TruncateContent(page.text, max_length),
                   <<Lookup(title), Event("logger.info", title)>>)

get_article_content(title, max_length, page) ==
    IF TitleEmpty(title) THEN Raise("ValueError", MsgTitleEmpty, <<>>)
    ELSE IF MaxLengthInvalid(max_length) THEN Raise("ValueError", MsgMaxLengthRange, <<>>)
    ELSE Rewrap(ContentBody(title, max_length, page), PrefixFailedContent)

\* faulty variant: the slice keeps eleven categories
LimitCategoriesEleven(categories) == Prefix(categories, 11)

\* list(page.categories.keys())[:10]
LimitCategories(categories) == Prefix(categories, 10)

\* the try block of get_article_info
InfoBody(title, page) ==
    CASE page.kind = "error" -> Raise(page.exc, page.err, <<Lookup(title)>>)
      [] page.kind = "absent" ->
            Raise("ValueError", NotFoundMessage(title), <<Lookup(title)>>)
      [] OTHER ->
            Return([title |-> page.title,
                    url |-> page.fullurl,
                    summary_length |-> Len(page.summary),
                    content_length |-> Len(page.text),
                    categories |-> LimitCategories(page.categories),
                    links_count |-> page.links],
                   <<Lookup(title), Event("logger.info", title)>>)

get_article_info(title, page) ==
    IF TitleEmpty(title) THEN Raise("ValueError", MsgTitleEmpty, <<>>)
    ELSE Rewrap(InfoBody(title, page), PrefixFailedInfo)

---------------------------------------------------------------------------
(* Tools of solution/advanced/wikipedia_server.py *)

\* the instruction smart_summarize puts before the article text
SamplePrompt ==
    "Make this Wikipedia summary more concise and engaging while preserving key facts:\n\n"

\* the output budget smart_summarize passes to ctx.sample
SampleMaxTokens == 800

\* the fixed limit interactive_search searches with
InteractiveLimit == 8

\* the sentence count get_article_summary defaults to
DefaultSentences == 3

\* faulty variant: the summary of the article is sent, not its text
smart_summarizeSummary(title, page, sample) ==
    LET started == <<Event("ctx.info", title), Lookup(title)>>
        request == Event("ctx.sample",
                         [prompt |-> SamplePrompt, text |-> page.summary,
                          max_tokens |-> SampleMaxTokens])
    IN  CASE page.kind = "error" -> Raise(page.exc, page.err, started)
          [] page.kind = "absent" -> Raise("ValueError", NotFoundMessage(title), started)
          [] sample.kind = "error" ->
                Raise(sample.exc, sample.err, started \o <<request>>)
          [] OTHER ->
                Return(sample.text, started \o <<request, Event("ctx.info", title)>>)

\* page is the article source's answer, sample the text generator's
smart_summarize(title, page, sample) ==
    LET started == <<Event("ctx.info", title), Lookup(title)>>
        request == Event("ctx.sample",
                         [prompt |-> SamplePrompt, text |-> page.text,
                          max_tokens |-> SampleMaxTokens])
    IN  CASE page.kind = "error" -> Raise(page.exc, page.err, started)
          [] page.kind = "absent" -> Raise("ValueError", NotFoundMessage(title), started)
          [] sample.kind = "error" ->
                Raise(sample.exc, sample.err, started \o <<request>>)
          [] OTHER ->
                Return(sample.text, started \o <<request, Event("ctx.info", title)>>)

\* return get_article_summary.fn(title): the summary tool with its default
\* sentence count (.fn being the function the tool decorator wraps); events
\* are the calls made before it
ReturnSummary(title, page, events) ==
    LET r == get_article_summary(title, DefaultSentences, page)
    IN  [r EXCEPT !.log = events \o <<Event("get_article_summary", title)>> \o r.log]

\* faulty variant: the titles are matched with their case
TitleMatchesCaseSensitive(search_results, user_input) ==
    {i \in 1..Len(search_results) : Contains(search_results[i], user_input)}

\* faulty variant: an empty input matches no title
TitleMatchesNonEmpty(search_results, user_input) ==
    {i \in 1..Len(search_results) :
        user_input # <<>> /\ Contains(Lower(search_results[i]), Lower(user_input))}

\* for title in search_results: if user_input.lower() in title.lower():
\* the 1-based positions of the titles that hold the input
TitleMatches(search_results, user_input) ==
    {i \in 1..Len(search_results) :
        Contains(Lower(search_results[i]), Lower(user_input))}

\* the first element of a non-empty set of positions
First(positions) == CHOOSE i \in positions : \A j \in positions : i <= j

\* f"{i + 1}. {title}" for i, title in enumerate(search_results)
Options(search_results) ==
    [i \in 1..Len(search_results) |-> [number |-> i, title |-> search_results[i]]]

\* f"Invalid selection '{user_input}'. Please enter a title name or number 1-{n}."
InvalidSelectionMessage(user_input, n) ==
    PrefixInvalidSelection \o user_input \o MidInvalidSelection \o IntToStr(n) \o <<".">>

\* faulty variant: the number is used as a 0-based index
ResolveSelectionZeroBased(search_results, data, page, events) ==
    LET user_input == Strip(data)
        matches == TitleMatches(search_results, user_input)
        invalid == Return(InvalidSelectionMessage(user_input, Len(search_results)), events)
        choice == ParseInt(user_input)
    IN  IF matches # {}
        THEN ReturnSummary(search_results[First(matches)], page,
                           events \o <<Event("ctx.info", search_results[First(matches)])>>)
        ELSE IF choice.ok /\ 1 <= choice.value /\ choice.value <= Len(search_results)
        THEN LET selected_title == search_results[(choice.value % Len(search_results)) + 1]
                 r == ReturnSummary(selected_title, page,
                                    events \o <<Event("ctx.info", selected_title)>>)
             IN  IF r.kind = "raise" /\ r.exc = "ValueError"
                 THEN [invalid EXCEPT !.log = r.log]
                 ELSE r
        ELSE invalid

\* the accept branch: title match first, then the number; the try around the
\* number selection also covers the summary call, so a ValueError raised by
\* get_article_summary there is swallowed and the invalid-selection message returned
ResolveSelection(search_results, data, page, events) ==
    LET user_input == Strip(data)
        matches == TitleMatches(search_results, user_input)
        invalid == Return(InvalidSelectionMessage(user_input, Len(search_results)), events)
        choice == ParseInt(user_input)
    IN  IF matches # {}
        THEN ReturnSummary(search_results[First(matches)], page,
                           events \o <<Event("ctx.info", search_results[First(matches)])>>)
        ELSE IF choice.ok /\ 1 <= choice.value /\ choice.value <= Len(search_results)
        THEN LET selected_title == search_results[choice.value]
                 r == ReturnSummary(selected_title, page,
                                    events \o <<Event("ctx.info", selected_title)>>)
             IN  IF r.kind = "raise" /\ r.exc = "ValueError"
                 THEN [invalid EXCEPT !.log = r.log]
                 ELSE r
        ELSE invalid

\* faulty variant: the first of several results is taken without asking
SingleResultOrMore(search_results) == Len(search_results) >= 1

\* if len(search_results) == 1
SingleResult(search_results) == Len(search_results) = 1

\* faulty variant: only an explicit decline cancels
AcceptedUnlessDeclined(prompt) == prompt.action # "decline"

\* if result.action == "accept"
Accepted(prompt) == prompt.action = "accept"

\* resp is the search service's answer, prompt the answer to ctx.elicit,
\* page the article source's answer for the title whose summary is fetched
interactive_search(query, resp, prompt, page) ==
    IF QueryEmpty(query) THEN Raise("ValueError", MsgQueryEmpty, <<>>)
    ELSE
    LET search == search_wikipedia(query, InteractiveLimit, resp)
        searched == <<Event("ctx.info", query)>> \o search.log
        search_results == search.value
    IN  IF search.kind = "raise" THEN Raise(search.exc, search.value, searched)
        ELSE IF search_results = <<>>
        THEN Return(PrefixNoResults \o query \o Quote, searched)
        ELSE IF SingleResult(search_results)
        THEN ReturnSummary(search_results[1], page,
                           searched \o <<Event("ctx.info", "Only one result found")>>)
        ELSE LET asked == searched \o
                          <<Event("ctx.elicit",
                                  [found |-> Len(search_results), query |-> query,
                                   options |-> Options(search_results)])>>
             IN  IF Accepted(prompt)
                 THEN ResolveSelection(search_results, prompt.data, page, asked)
                 ELSE Return(MsgCancelled, asked)

\* faulty variant: the arguments of report_progress are swapped
ProgressSwapped(done) == Event("ctx.report_progress", [progress |-> 100, total |-> done])

\* await ctx.report_progress(done, 100)
Progress(done) == Event("ctx.report_progress", [progress |-> done, total |-> 100])

\* faulty variant: a break at exactly 80% of max_length is taken
TruncateWithProgressInclusive(content, max_length) ==
    IF Len(content) > max_length
    THEN LET truncated == Prefix(content, max_length)
             last_period == RFind(truncated, ".")
             last_newline == RFind(truncated, "\n")
             break_point == Max(last_period, last_newline)
         IN  IF 5 * break_point >= 4 * max_length
             THEN Prefix(content, break_point + 1) \o TruncationMarker
             ELSE truncated \o Ellipsis \o TruncationMarker
    ELSE content

\* the truncation of get_article_with_progress
TruncateWithProgress(content, max_length) ==
    IF Len(content) > max_length
    THEN LET truncated == Prefix(content, max_length)
             last_period == RFind(truncated, ".")
             last_newline == RFind(truncated, "\n")
             break_point == Max(last_period, last_newline)
         IN  IF 5 * break_point > 4 * max_length
             THEN Prefix(content, break_point + 1) \o TruncationMarker
             ELSE truncated \o Ellipsis \o TruncationMarker
    ELSE content

get_article_with_progress(title, max_length, page) ==
    IF TitleEmpty(title) THEN Raise("ValueError", MsgTitleEmpty, <<>>)
    ELSE IF MaxLengthInvalid(max_length) THEN Raise("ValueError", MsgMaxLengthRange, <<>>)
    ELSE
    LET started == <<Event("ctx.info", title), Progress(0), Lookup(title)>>
        fetched == started \o <<Progress(25)>>
        sized == fetched \o <<Progress(50)>>
        cutting == IF Len(page.text) > max_length
                   THEN <<Event("ctx.info", <<Len(page.text), max_length>>), Progress(75)>>
                   ELSE <<>>
    IN  CASE page.kind = "error" -> Raise(page.exc, page.err, started)
          [] page.kind = "absent" -> Raise("ValueError", NotFoundMessage(title), started)
          [] page.text = <<>> ->
                Raise("ValueError", PrefixNoContent \o title \o Quote, fetched)
          [] OTHER ->
                Return(TruncateWithProgress(page.text, max_length),
                       sized \o cutting \o <<Progress(100), Event("ctx.info", title)>>)

---------------------------------------------------------------------------
(* Inputs and collaborator answers explored *)

\* query and title arguments: empty, whitespace only, padded, plain
TextArgs ==
    {<<>>, <<" ">>, <<"\n", " ">>, <<"p", "y">>, <<" ", "A", "b", " ">>}

\* limit and sentence-count arguments, on both sides of the range 1..10
CountArgs == (0 - 1)..12

\* article titles known to the search service
Titles == {<<"P", "y">>, <<"p", "y", " ", "2">>, <<"A", "b">>}

\* every list of at most n titles
TitleLists(n) == UNION {[1..k -> Titles] : k \in 0..n}

\* texts of the exceptions the collaborators raise
ErrTexts ==
    {<<"t", "i", "m", "e", "d", " ", "o", "u", "t">>,
     <<"4", "0", "4", " ", "N", "o", "t", " ", "F", "o", "u", "n", "d">>}

SearchResponses ==
    {[kind |-> "ok", stage |-> "done", pages |-> ps, err |-> <<>>] :
        ps \in TitleLists(MaxPages)}
    \cup
    {[kind |-> "ok", stage |-> "no pages key", pages |-> <<>>, err |-> <<>>]}
    \cup
    {[kind |-> f[1], stage |-> f[2], pages |-> <<>>, err |-> e] :
        f \in {<<"RequestException", "get">>, <<"RequestException", "raise_for_status">>,
               <<"RequestException", "json">>, <<"Exception", "json">>,
               <<"Exception", "pages">>},
        e \in ErrTexts}

\* raw summaries of the article source: none, periods and blanks alone, fewer
\* and more sentences than asked for, padded fragments
Summaries ==
    {<<>>,
     <<".">>,
     <<" ", ".", " ">>,
     <<"a">>,
     <<"a", ".", " ", "b", ".">>,
     <<"a", ".", "b", ".", " ", ".", "c", ".", "d", ".", "e">>}

\* short article texts
ShortTexts == {<<>>, <<"a", "b", ".">>}

\* category names c1, c2, ... of an article with n categories
CategoryNames(n) == [i \in 1..n |-> <<"c">> \o IntToStr(i)]

\* numbers of categories explored, on both sides of the cap of 10
CategoryCounts == {0, 3, 10, 11, 12}

\* an existing article
Page(title, summary, text, ncat) ==
    [kind |-> "present", title |-> title, fullurl |-> <<"/">> \o title,
     summary |-> summary, text |-> text, categories |-> CategoryNames(ncat),
     links |-> ncat + 1, exc |-> "", err |-> <<>>]

\* the article source reports that the title does not exist
AbsentPage ==
    [kind |-> "absent", title |-> <<>>, fullurl |-> <<>>, summary |-> <<>>,
     text |-> <<>>, categories |-> <<>>, links |-> 0, exc |-> "", err |-> <<>>]

\* the article source raises while the page is fetched
FailingPages ==
    {[AbsentPage EXCEPT !.kind = "error", !.exc = "ConnectionError", !.err = e] :
        e \in ErrTexts}

\* answers of the article source with short texts
PageAnswers ==
    {AbsentPage} \cup FailingPages
    \cup {Page(<<"P", "y">>, s, t, 3) : s \in Summaries, t \in ShortTexts}

\* answers of the article source with every number of categories
InfoPageAnswers ==
    {AbsentPage} \cup FailingPages
    \cup {Page(<<"P", "y">>, s, <<"a", "b", ".">>, n) :
            s \in {<<>>, <<"a">>}, n \in CategoryCounts}

\* answers of the article source that differ in the summary alone
SummaryPageAnswers ==
    {AbsentPage} \cup FailingPages
    \cup {Page(<<"P", "y">>, s, <<"a", "b", ".">>, 3) : s \in Summaries}

\* an article text of n characters: "a" everywhere but a "." at the 0-based
\* index period and a newline at the 0-based index newline (-1: none)
LongText(n, period, newline) ==
    [i \in 1..n |-> IF i - 1 = period THEN "."
                    ELSE IF i - 1 = newline THEN "\n"
                    ELSE "a"]

\* the max_length values the truncation is explored with
MaxLengths == 100..(100 + MaxLengthSpan)

\* where the period and the newline are put: nowhere, at the start, around
\* 80% of max_length and around max_length
BreakPositions ==
    {0 - 1, 0} \cup 79..(81 + MaxLengthSpan) \cup 98..(100 + MaxLengthSpan + MaxOver)

\* article texts around max_length characters long
LongTexts(max_length) ==
    {LongText(n, p, q) :
        n \in (max_length - 1)..(max_length + MaxOver),
        p \in BreakPositions, q \in BreakPositions}

\* max_length arguments on both sides of the range 100..10000
MaxLengthArgs == {0 - 1, 0, 99, 100, 2000, 10000, 10001}

\* (title, max_length, article) of the content tools: every argument with the
\* short articles, and the truncation with a plain title
ContentCases ==
    {<<t, m, pg>> : t \in TextArgs, m \in MaxLengthArgs, pg \in PageAnswers}
    \cup
    UNION {{<<<<"P", "y">>, m, Page(<<"P", "y">>, <<"a">>, txt, 3)>> :
                txt \in LongTexts(m)} : m \in MaxLengths}

\* what the user types into the prompt
UserInputs ==
    {<<>>, <<" ">>, <<"p", "y">>, <<" ", "B", " ">>, <<"x">>, <<"0">>, <<"1">>, <<"2">>,
     <<"2", " ">>, <<"3">>, <<"4">>, <<"5">>, <<"+", "1">>, <<"-", "1">>, <<"1", "x">>}

\* answers of the prompt collaborator
PromptAnswers ==
    {[action |-> "accept", data |-> d] : d \in UserInputs}
    \cup {[action |-> a, data |-> <<>>] : a \in {"decline", "cancel"}}

\* answers of the text-generation collaborator
SampleAnswers ==
    {[kind |-> "ok", text |-> t, exc |-> "", err |-> <<>>] : t \in {<<>>, <<"z", ".">>}}
    \cup {[kind |-> "error", text |-> <<>>, exc |-> "McpError", err |-> e] :
            e \in ErrTexts}

\* no collaborator was asked
NoAnswer == [kind |-> "none"]

NoEnv ==
    [search |-> NoAnswer, page |-> NoAnswer, prompt |-> NoAnswer, sample |-> NoAnswer]

---------------------------------------------------------------------------
(* The server loop *)

Idle == call.tool = "idle"

\* self.last_result = None
NoResult == [kind |-> "none"]

\* no iteration of the chat loop has run
NoTurn ==
    [input |-> <<>>, branch |-> "none", runs |-> 0, history |-> <<>>, shown |-> <<>>,
     printed |-> ""]

Init ==
    /\ call = [tool |-> "idle", arg |-> <<>>, n |-> 0]
    /\ env = NoEnv
    /\ outcome = [kind |-> "none", exc |-> "", value |-> <<>>]
    /\ log = <<>>
    /\ loop = "created"
    /\ last_result = NoResult
    /\ turn = NoTurn
    /\ io = [reads |-> 0, runs |-> 0]
    /\ transcript = <<>>
    /\ client = "none"
    /\ cleared = "no"

\* the handler's result r becomes the state of the request
Finish(tool, arg, n, answers, r) ==
    /\ call' = [tool |-> tool, arg |-> arg, n |-> n]
    /\ env' = answers
    /\ outcome' = [kind |-> r.kind, exc |-> r.exc, value |-> r.value]
    /\ log' = r.log
    /\ UNCHANGED client_vars

CallSearchWikipedia ==
    /\ Idle
    /\ \E query \in TextArgs, limit \in CountArgs, resp \in SearchResponses :
          Finish("search_wikipedia", query, limit,
                 [NoEnv EXCEPT !.search = resp],
                 search_wikipedia(query, limit, resp))

CallGetArticleSummary ==
    /\ Idle
    /\ \E title \in TextArgs, sentences \in CountArgs, page \in SummaryPageAnswers :
          Finish("get_article_summary", title, sentences,
                 [NoEnv EXCEPT !.page = page],
                 get_article_summary(title, sentences, page))

CallGetArticleContent ==
    /\ Idle
    /\ \E c \in ContentCases :
          Finish("get_article_content", c[1], c[2],
                 [NoEnv EXCEPT !.page = c[3]],
                 get_article_content(c[1], c[2], c[3]))

CallGetArticleInfo ==
    /\ Idle
    /\ \E title \in TextArgs, page \in InfoPageAnswers :
          Finish("get_article_info", title, 0,
                 [NoEnv EXCEPT !.page = page],
                 get_article_info(title, page))

CallSmartSummarize ==
    /\ Idle
    /\ \E title \in TextArgs, page \in PageAnswers, sample \in SampleAnswers :
          Finish("smart_summarize", title, 0,
                 [NoEnv EXCEPT !.page = page, !.sample = sample],
                 smart_summarize(title, page, sample))

CallInteractiveSearch ==
    /\ Idle
    /\ \E query \in TextArgs, resp \in SearchResponses,
          prompt \in PromptAnswers, page \in SummaryPageAnswers :
          Finish("interactive_search", query, 0,
                 [NoEnv EXCEPT !.search = resp, !.prompt = prompt, !.page = page],
                 interactive_search(query, resp, prompt, page))

CallGetArticleWithProgress ==
    /\ Idle
    /\ \E c \in ContentCases :
          Finish("get_article_with_progress", c[1], c[2],
                 [NoEnv EXCEPT !.page = c[3]],
                 get_article_with_progress(c[1], c[2], c[3]))

\* the runtime sends the outcome to the client and waits for the next request
Respond ==
    /\ ~Idle
    /\ call' = [tool |-> "idle", arg |-> <<>>, n |-> 0]
    /\ env' = NoEnv
    /\ outcome' = [kind |-> "none", exc |-> "", value |-> <<>>]
    /\ log' = <<>>
    /\ UNCHANGED client_vars

\* the search tool alone
SearchNext == CallSearchWikipedia \/ Respond

SpecSearch == Init /\ [][SearchNext]_vars

\* the article tools of both servers
ArticleNext ==
    \/ CallGetArticleSummary
    \/ CallGetArticleInfo
    \/ CallSmartSummarize
    \/ CallGetArticleContent
    \/ CallGetArticleWithProgress
    \/ Respond

SpecArticle == Init /\ [][ArticleNext]_vars

\* the two content tools
ContentNext == CallGetArticleContent \/ CallGetArticleWithProgress \/ Respond

SpecContent == Init /\ [][ContentNext]_vars

\* the disambiguation dialogue
InteractiveNext == CallInteractiveSearch \/ Respond

SpecInteractive == Init /\ [][InteractiveNext]_vars

\* the whole server
Next ==
    \/ CallSearchWikipedia
    \/ CallGetArticleSummary
    \/ CallGetArticleContent
    \/ CallGetArticleInfo
    \/ CallSmartSummarize
    \/ CallInteractiveSearch
    \/ CallGetArticleWithProgress
    \/ Respond

Spec == Init /\ [][Next]_vars

---------------------------------------------------------------------------
(* The chat client of solution/clients/cli_client.py *)

\* if user_input_lower in ["quit", "exit", "q"]
QuitCommands == {<<"q", "u", "i", "t">>, <<"e", "x", "i", "t">>, <<"q">>}

\* if user_input_lower in ["history", "hist", "h"]
HistoryCommands == {<<"h", "i", "s", "t", "o", "r", "y">>,
                    <<"h", "i", "s", "t">>, <<"h">>}

\* if user_input_lower in ["clear", "clear history", "reset"]
ClearCommands ==
    {<<"c", "l", "e", "a", "r">>,
     <<"c", "l", "e", "a", "r", " ", "h", "i", "s", "t", "o", "r", "y">>,
     <<"r", "e", "s", "e", "t">>}

\* faulty variant: the commands are compared with their case
BranchCaseSensitive(user_input) ==
    IF user_input \in QuitCommands THEN "quit"
    ELSE IF user_input \in HistoryCommands THEN "history"
    ELSE IF user_input \in ClearCommands THEN "clear"
    ELSE IF user_input = <<>> THEN "blank"
    ELSE "ask"

\* faulty variant: an empty input is forwarded
BranchBlankForwarded(user_input) ==
    IF Lower(user_input) \in QuitCommands THEN "quit"
    ELSE IF Lower(user_input) \in HistoryCommands THEN "history"
    ELSE IF Lower(user_input) \in ClearCommands THEN "clear"
    ELSE "ask"

\* the branch chat_session takes for the trimmed input
Branch(user_input) ==
    IF Lower(user_input) \in QuitCommands THEN "quit"
    ELSE IF Lower(user_input) \in HistoryCommands THEN "history"
    ELSE IF Lower(user_input) \in ClearCommands THEN "clear"
    ELSE IF user_input = <<>> THEN "blank"
    ELSE "ask"

\* a part of a message; content <<>> is a part without content
Part(name, content) == [part |-> name, content |-> content]

ModelRequest(parts) == [kind |-> "ModelRequest", parts |-> parts]

ModelResponse(parts) == [kind |-> "ModelResponse", parts |-> parts]

ChatMessage(role, content) == [role |-> role, content |-> content]

\* the user rows of a request: its UserPromptPart parts that have content
UserMessages(message) ==
    LET parts == SelectSeq(message.parts,
                           LAMBDA part : part.content # <<>> /\ part.part = "UserPromptPart")
    IN  [i \in 1..Len(parts) |-> ChatMessage("user", parts[i].content)]

\* the assistant row of a response: its TextPart contents joined with " "
AssistantMessages(message) ==
    LET parts == SelectSeq(message.parts,
                           LAMBDA part : part.content # <<>> /\ part.part = "TextPart")
        content_parts == [i \in 1..Len(parts) |-> parts[i].content]
    IN  IF content_parts # <<>>
        THEN <<ChatMessage("assistant", Join(content_parts, <<" ">>))>>
        ELSE <<>>

RECURSIVE convert_messages_for_display(_)
convert_messages_for_display(messages) ==
    IF messages = <<>> THEN <<>>
    ELSE LET message == Head(messages)
             display_messages ==
                 IF message.kind = "ModelRequest" THEN UserMessages(message)
                 ELSE AssistantMessages(message)
         IN  display_messages \o convert_messages_for_display(Tail(messages))

\* AgentRunResult.new_messages(): the messages of the run that made the result
new_messages(result) == result.new

\* AgentRunResult.all_messages(): the history passed in, then the new messages
all_messages(result) == result.all

get_message_history_for_next_run ==
    IF last_result # NoResult THEN new_messages(last_result) ELSE <<>>

\* msg.role.title()
RoleTitle(role) == IF role = "user" THEN "User" ELSE "Assistant"

\* content[:77] + "..." for a content of more than 80 characters
Shorten(content) ==
    IF Len(content) > 80 THEN Prefix(content, 77) \o <<".", ".", ".">> ELSE content

\* "No chat history yet"
NoHistoryYet == [table |-> FALSE, rows |-> <<>>]

\* what display_chat_history prints for self.last_result = result
display_chat_history(result) ==
    IF result = NoResult THEN NoHistoryYet
    ELSE LET display_messages == convert_messages_for_display(all_messages(result))
         IN  IF display_messages = <<>> THEN NoHistoryYet
             ELSE [table |-> TRUE,
                   rows |-> [i \in 1..Len(display_messages) |->
                               [role |-> RoleTitle(display_messages[i].role),
                                content |-> Shorten(display_messages[i].content)]]]

\* the system prompt of the agent
SystemPrompt == <<"s", "y", "s">>

\* self.agent.run(user_input, message_history=message_history) answered with
\* the messages answer.messages: the run opens with the request that holds
\* the user prompt (and the system prompt when there is no history)
AgentRun(user_input, message_history, answer) ==
    LET system == IF message_history = <<>>
                  THEN <<Part("SystemPromptPart", SystemPrompt)>>
                  ELSE <<>>
        new == <<ModelRequest(system \o <<Part("UserPromptPart", user_input)>>)>>
               \o answer.messages
    IN  [kind |-> "result", new |-> new, all |-> message_history \o new,
         output |-> answer.output]

\* what the user types: commands in several spellings, blanks, questions
ChatInputs ==
    {<<"q", "u", "i", "t">>, <<" ", "Q", " ">>,
     <<"E", "X", "I", "T">>,
     <<"h", "i", "s", "t", "o", "r", "y">>, <<"H">>,
     <<"c", "l", "e", "a", "r">>, <<"R", "e", "s", "e", "t">>,
     <<>>, <<" ", " ">>,
     <<"h", "i">>,
     <<" ", "Q", "u", "i", "t", " ", "n", "o", "w", " ">>}

\* a reply longer than a row of the history table shows
LongReply == [i \in 1..81 |-> "r"]

\* answers of the agent: a plain reply, a reply after a tool call, a failure
\* of the model or the server, an interruption by the user
AgentAnswers ==
    {[kind |-> "ok", output |-> <<"y", "e", "s">>,
      messages |-> <<ModelResponse(<<Part("TextPart", <<"y", "e", "s">>)>>)>>],
     [kind |-> "ok", output |-> LongReply,
      messages |-> <<ModelResponse(<<Part("ToolCallPart", <<>>)>>),
                     ModelRequest(<<Part("ToolReturnPart", <<"P", "y">>)>>),
                     ModelResponse(<<Part("TextPart", LongReply)>>)>>],
     [kind |-> "error", output |-> <<>>, messages |-> <<>>],
     [kind |-> "interrupt", output |-> <<>>, messages |-> <<>>]}

\* the branch chat_loop of 03_polish.py takes for the trimmed input: the
\* empty input is tested first and there are no history and clear commands
PolishBranch(user_input) ==
    IF user_input = <<>> THEN "blank"
    ELSE IF Lower(user_input) \in QuitCommands THEN "quit"
    ELSE "ask"

\* the branch the running client takes
ClientBranch(user_input) ==
    IF client = "cli_client" THEN Branch(user_input) ELSE PolishBranch(user_input)

\* what the user of 03_polish.py types: quit in several spellings, blanks, a
\* question, and a word the other client takes for a command
PolishInputs ==
    {<<"q", "u", "i", "t">>, <<" ", "Q", " ">>,
     <<"E", "X", "I", "T">>,
     <<>>, <<" ", " ">>,
     <<"h", "i">>,
     <<"h", "i", "s", "t", "o", "r", "y">>}

\* what the user of the running client types
ClientInputs == IF client = "cli_client" THEN ChatInputs ELSE PolishInputs

\* what the iteration prints last, without the texts it interpolates (the
\* title of the table or panel; 03_polish.py prints the bare output)
Printed(branch) ==
    CASE branch = "quit" ->
            IF client = "cli_client" THEN "Thanks for using MCP Research Assistant!"
            ELSE "Thanks for using the Research Assistant!"
      [] branch = "history" -> "Chat History"
      [] branch = "clear" -> "Chat history cleared"
      [] branch = "blank" -> ""
      [] branch = "answered" ->
            IF client = "cli_client" THEN "Assistant" ELSE ""
      [] branch = "failed" ->
            "Please try rephrasing your question or check your connection."
      [] OTHER -> "Goodbye!"

\* run_session: initialize() and, if it succeeds, the start of chat_session
RunSession ==
    /\ loop = "created"
    /\ \E initialized \in BOOLEAN :
          loop' = IF initialized THEN "awaiting" ELSE "terminated"
    /\ client' = "cli_client"
    /\ UNCHANGED <<last_result, turn, io, transcript, cleared>>
    /\ UNCHANGED server_vars

\* main of 03_polish.py: validate_environment(), initialize() and, if both
\* succeed, the start of chat_loop
PolishMain ==
    /\ loop = "created"
    /\ \E valid \in BOOLEAN, initialized \in BOOLEAN :
          loop' = IF valid /\ initialized THEN "awaiting" ELSE "terminated"
    /\ client' = "03_polish"
    /\ UNCHANGED <<last_result, turn, io, transcript, cleared>>
    /\ UNCHANGED server_vars

\* console.input is about to be called
Reading ==
    /\ loop = "awaiting"
    /\ io.reads < MaxInputs

\* an iteration that does not reach the agent
Iteration(raw, branch, shown) ==
    /\ turn' = [input |-> raw, branch |-> branch, runs |-> 0,
                history |-> <<>>, shown |-> shown, printed |-> Printed(branch)]
    /\ io' = [io EXCEPT !.reads = @ + 1]
    /\ UNCHANGED client
    /\ UNCHANGED server_vars

\* KeyboardInterrupt while console.input waits
InputInterrupted ==
    /\ Reading
    /\ Iteration(<<>>, "interrupt", NoHistoryYet)
    /\ loop' = "terminated"
    /\ UNCHANGED <<last_result, transcript, cleared>>

Quit ==
    /\ Reading
    /\ \E raw \in ClientInputs :
          /\ ClientBranch(Strip(raw)) = "quit"
          /\ Iteration(raw, "quit", NoHistoryYet)
    /\ loop' = "terminated"
    /\ UNCHANGED <<last_result, transcript, cleared>>

History ==
    /\ Reading
    /\ \E raw \in ClientInputs :
          /\ ClientBranch(Strip(raw)) = "history"
          /\ Iteration(raw, "history", display_chat_history(last_result))
    /\ UNCHANGED <<loop, last_result, transcript, cleared>>

\* faulty variant: the stored result survives the clear command
ClearKeepsResult ==
    /\ Reading
    /\ \E raw \in ClientInputs :
          /\ ClientBranch(Strip(raw)) = "clear"
          /\ Iteration(raw, "clear", NoHistoryYet)
    /\ transcript' = <<>>
    /\ cleared' = IF last_result = NoResult /\ cleared # "dropped" THEN "empty"
                  ELSE "dropped"
    /\ UNCHANGED <<loop, last_result>>

Clear ==
    /\ Reading
    /\ \E raw \in ClientInputs :
          /\ ClientBranch(Strip(raw)) = "clear"
          /\ Iteration(raw, "clear", NoHistoryYet)
    /\ last_result' = NoResult
    /\ transcript' = <<>>
    /\ cleared' = IF last_result = NoResult /\ cleared # "dropped" THEN "empty"
                  ELSE "dropped"
    /\ UNCHANGED loop

EmptyInput ==
    /\ Reading
    /\ \E raw \in ClientInputs :
          /\ ClientBranch(Strip(raw)) = "blank"
          /\ Iteration(raw, "blank", NoHistoryYet)
    /\ UNCHANGED <<loop, last_result, transcript, cleared>>

\* an iteration that runs the agent with the trimmed input
Asked(raw, branch) ==
    /\ turn' = [input |-> raw, branch |-> branch, runs |-> 1,
                history |-> get_message_history_for_next_run,
                shown |-> NoHistoryYet, printed |-> Printed(branch)]
    /\ io' = [reads |-> io.reads + 1, runs |-> io.runs + 1]
    /\ UNCHANGED client
    /\ UNCHANGED server_vars

\* the agent answers: the result is kept and its output printed
AskAnswered ==
    /\ Reading
    /\ \E raw \in ClientInputs, answer \in AgentAnswers :
          /\ ClientBranch(Strip(raw)) = "ask"
          /\ answer.kind = "ok"
          /\ Asked(raw, "answered")
          /\ last_result' = AgentRun(Strip(raw), get_message_history_for_next_run, answer)
          /\ transcript' = Append(transcript,
                                  [user |-> Strip(raw), assistant |-> answer.output])
    /\ cleared' = "no"
    /\ UNCHANGED loop

\* faulty variant: a failure of the agent ends the session
AskFailedFatal ==
    /\ Reading
    /\ \E raw \in ClientInputs, answer \in AgentAnswers :
          /\ ClientBranch(Strip(raw)) = "ask"
          /\ answer.kind = "error"
          /\ Asked(raw, "failed")
    /\ loop' = "terminated"
    /\ UNCHANGED <<last_result, transcript, cleared>>

\* faulty variant: a failure of the agent drops the stored result
AskFailedForgets ==
    /\ Reading
    /\ \E raw \in ClientInputs, answer \in AgentAnswers :
          /\ ClientBranch(Strip(raw)) = "ask"
          /\ answer.kind = "error"
          /\ Asked(raw, "failed")
    /\ last_result' = NoResult
    /\ UNCHANGED <<loop, transcript, cleared>>

\* the agent raises: the error is printed and the loop goes on
AskFailed ==
    /\ Reading
    /\ \E raw \in ClientInputs, answer \in AgentAnswers :
          /\ ClientBranch(Strip(raw)) = "ask"
          /\ answer.kind = "error"
          /\ Asked(raw, "failed")
    /\ UNCHANGED <<loop, last_result, transcript, cleared>>

\* KeyboardInterrupt while the agent runs
AskInterrupted ==
    /\ Reading
    /\ \E raw \in ClientInputs, answer \in AgentAnswers :
          /\ ClientBranch(Strip(raw)) = "ask"
          /\ answer.kind = "interrupt"
          /\ Asked(raw, "interrupt")
    /\ loop' = "terminated"
    /\ UNCHANGED <<last_result, transcript, cleared>>

ChatNext ==
    \/ RunSession
    \/ InputInterrupted
    \/ Quit
    \/ History
    \/ Clear
    \/ EmptyInput
    \/ AskAnswered
    \/ AskFailed
    \/ AskInterrupted

SpecChat == Init /\ [][ChatNext]_vars

\* either chat client: cli_client.py or the workshop's 03_polish.py
ClientsNext == ChatNext \/ PolishMain

SpecClients == Init /\ [][ClientsNext]_vars

---------------------------------------------------------------------------
(* process_pydata_schedule of solution/examples/03_pydata_server.py *)

\* JSON values as Python holds them: t is the type, v the content (the pairs
\* of a dict in insertion order, the items of a list, the characters of a str)
JNull == [t |-> "null", v |-> <<>>]

JStr(chars) == [t |-> "str", v |-> chars]

JInt(n) == [t |-> "int", v |-> <<n>>]

JList(items) == [t |-> "list", v |-> items]

JDict(pairs) == [t |-> "dict", v |-> pairs]

\* one key of a dict with its value
Pair(key, value) == [k |-> key, v |-> value]

\* the outcome of a step that may raise
Ok(value) == [kind |-> "ok", value |-> value]

Err(exc) == [kind |-> exc, value |-> <<>>]

\* d.get(key, default): AttributeError unless d is a dict
Get(d, key, default) ==
    LET at == IF d.t = "dict" THEN {i \in 1..Len(d.v) : d.v[i].k = key} ELSE {}
    IN  IF d.t # "dict" THEN Err("AttributeError")
        ELSE IF at = {} THEN Ok(default)
        ELSE Ok(d.v[CHOOSE i \in at : TRUE].v)

\* d.items(): AttributeError unless d is a dict
Items(d) == IF d.t # "dict" THEN Err("AttributeError") ELSE Ok(d.v)

\* for item in x: the items of a list, the keys of a dict, the characters of
\* a str; TypeError for None and for a number
Iter(x) ==
    CASE x.t = "list" -> Ok(x.v)
      [] x.t = "dict" -> Ok([i \in 1..Len(x.v) |-> JStr(<<x.v[i].k>>)])
      [] x.t = "str" -> Ok([i \in 1..Len(x.v) |-> JStr(<<x.v[i]>>)])
      [] OTHER -> Err("TypeError")

\* x.get(key) with the default None, for an x known to be a dict
GetOrNone(x, key) == Get(x, key, JNull).value

\* [{"name": person.get("name"), "url": person.get("url")} for person in persons]
RECURSIVE PersonRecords(_)
PersonRecords(persons) ==
    IF persons = <<>> THEN Ok(<<>>)
    ELSE LET person == Head(persons)
         IN  IF person.t # "dict" THEN Err("AttributeError")
             ELSE LET rest == PersonRecords(Tail(persons))
                  IN  IF rest.kind # "ok" THEN rest
                      ELSE Ok(<<[name |-> GetOrNone(person, "name"),
                                 url |-> GetOrNone(person, "url")]>> \o rest.value)

\* the body of the loop over the talks of a room: keys_to_keep, the room set
\* to the room's key, the persons
ProcessedTalk(room_name, talk) ==
    IF talk.t # "dict" THEN Err("AttributeError")
    ELSE LET persons == Iter(Get(talk, "persons", JList(<<>>)).value)
             records == IF persons.kind = "ok" THEN PersonRecords(persons.value)
                        ELSE persons
         IN  IF records.kind # "ok" THEN records
             ELSE Ok([date |-> GetOrNone(talk, "date"),
                      start |-> GetOrNone(talk, "start"),
                      duration |-> GetOrNone(talk, "duration"),
                      room |-> room_name,
                      url |-> GetOrNone(talk, "url"),
                      title |-> GetOrNone(talk, "title"),
                      abstract |-> GetOrNone(talk, "abstract"),
                      type |-> GetOrNone(talk, "type"),
                      persons |-> records.value])

\* for talk in talks_in_room
RECURSIVE TalksOfRoom(_, _)
TalksOfRoom(room_name, talks) ==
    IF talks = <<>> THEN Ok(<<>>)
    ELSE LET first == ProcessedTalk(room_name, Head(talks))
         IN  IF first.kind # "ok" THEN first
             ELSE LET rest == TalksOfRoom(room_name, Tail(talks))
                  IN  IF rest.kind # "ok" THEN rest
                      ELSE Ok(<<first.value>> \o rest.value)

\* for room_name, talks_in_room in day.get("rooms", {}).items()
RECURSIVE TalksOfRooms(_)
TalksOfRooms(rooms) ==
    IF rooms = <<>> THEN Ok(<<>>)
    ELSE LET talks_in_room == Iter(Head(rooms).v)
             first == IF talks_in_room.kind = "ok"
                      THEN TalksOfRoom(Head(rooms).k, talks_in_room.value)
                      ELSE talks_in_room
         IN  IF first.kind # "ok" THEN first
             ELSE LET rest == TalksOfRooms(Tail(rooms))
                  IN  IF rest.kind # "ok" THEN rest
                      ELSE Ok(first.value \o rest.value)

\* for day in days
RECURSIVE TalksOfDays(_)
TalksOfDays(days) ==
    IF days = <<>> THEN Ok(<<>>)
    ELSE LET got == Get(Head(days), "rooms", JDict(<<>>))
             rooms == IF got.kind = "ok" THEN Items(got.value) ELSE got
             first == IF rooms.kind = "ok" THEN TalksOfRooms(rooms.value) ELSE rooms
         IN  IF first.kind # "ok" THEN first
             ELSE LET rest == TalksOfDays(Tail(days))
                  IN  IF rest.kind # "ok" THEN rest
                      ELSE Ok(first.value \o rest.value)

\* raw_data.get("schedule", {}).get("conference", {}).get("days", [])
DaysOf(raw_data) ==
    LET schedule == Get(raw_data, "schedule", JDict(<<>>))
        conference == IF schedule.kind = "ok"
                      THEN Get(schedule.value, "conference", JDict(<<>>))
                      ELSE schedule
    IN  IF conference.kind = "ok" THEN Get(conference.value, "days", JList(<<>>))
        ELSE conference

\* the try block returns all_talks; except (KeyError, TypeError) prints and
\* returns []; any other exception leaves the function
process_pydata_schedule(raw_data) ==
    LET got == DaysOf(raw_data)
        days == IF got.kind = "ok" THEN Iter(got.value) ELSE got
        all_talks == IF days.kind = "ok" THEN TalksOfDays(days.value) ELSE days
    IN  CASE all_talks.kind = "ok" -> Return(all_talks.value, <<>>)
          [] all_talks.kind \in {"KeyError", "TypeError"} ->
                Return(<<>>, <<Event("print", all_talks.kind)>>)
          [] OTHER -> Raise(all_talks.kind, <<>>, <<>>)

\* the inputs: exports of the expected structure with no, one and two days
\* (GoodDay has two talks in one room and one in another; a talk's own
\* "room" field differs from the key of the room it is listed under), and
\* exports with Junk at one level of the structure: alone, before and after
\* a good item of that level.  Junk is what a level should not hold: null, a
\* number, strings, lists and dicts of the wrong content (the empty dict is
\* the level with its keys missing).
RawInputs ==
    LET GoodPerson(name) ==
            JDict(<<Pair("name", JStr(name)), Pair("url", JStr(<<"/">> \o name)),
                    Pair("code", JStr(<<"X">>))>>)
        TalkWith(title, persons) ==
            JDict(<<Pair("title", JStr(title)), Pair("room", JStr(<<"?">>)),
                    Pair("duration", JStr(<<"3", "0">>)), Pair("id", JInt(7)),
                    Pair("persons", persons)>>)
        GoodTalk(title) == TalkWith(title, JList(<<GoodPerson(<<"n">> \o title)>>))
        DayWith(rooms) == JDict(<<Pair("index", JInt(1)), Pair("rooms", rooms)>>)
        GoodRoom == Pair("Hall", JList(<<GoodTalk(<<"a">>), GoodTalk(<<"b">>)>>))
        GoodDay == DayWith(JDict(<<GoodRoom, Pair("Lab", JList(<<GoodTalk(<<"c">>)>>))>>))
        QuietDay == DayWith(JDict(<<Pair("Lab", JList(<<>>))>>))
        ConferenceWith(conference) ==
            JDict(<<Pair("schedule",
                         JDict(<<Pair("version", JStr(<<"1">>)),
                                 Pair("conference", conference)>>))>>)
        ScheduleWith(days) == ConferenceWith(JDict(<<Pair("days", days)>>))
        OneRoom(talks) == ScheduleWith(JList(<<DayWith(JDict(<<Pair("Hall", JList(talks))>>))>>))
        WellFormedInputs ==
            {ScheduleWith(JList(days)) :
                days \in UNION {[1..n -> {GoodDay, QuietDay}] : n \in 0..2}}
        Junk ==
            {JNull, JInt(1), JStr(<<>>), JStr(<<"x">>), JList(<<>>), JList(<<JInt(1)>>),
             JDict(<<>>), JDict(<<Pair("k", JNull)>>)}
        Placed(junk, good) == {<<junk>>, <<junk, good>>, <<good, junk>>}
        FaultyInputs ==
            Junk
            \cup {JDict(<<Pair("schedule", j)>>) : j \in Junk}
            \cup {ConferenceWith(j) : j \in Junk}
            \cup {ScheduleWith(j) : j \in Junk}
            \cup UNION {{ScheduleWith(JList(days)) : days \in Placed(j, GoodDay)} :
                            j \in Junk}
            \cup UNION {{ScheduleWith(JList(days)) : days \in Placed(DayWith(j), GoodDay)} :
                            j \in Junk}
            \cup UNION {{ScheduleWith(JList(<<DayWith(JDict(rooms))>>)) :
                            rooms \in Placed(Pair("Aula", j), GoodRoom)} : j \in Junk}
            \cup UNION {{OneRoom(talks) : talks \in Placed(j, GoodTalk(<<"a">>))} :
                            j \in Junk}
            \cup UNION {{OneRoom(talks) :
                            talks \in Placed(TalkWith(<<"t">>, j), GoodTalk(<<"a">>))} :
                            j \in Junk}
            \cup UNION {{OneRoom(<<TalkWith(<<"t">>, JList(persons))>>) :
                            persons \in Placed(j, GoodPerson(<<"n">>))} : j \in Junk}
    IN  WellFormedInputs \cup FaultyInputs

CallProcessPydataSchedule ==
    /\ Idle
    /\ \E raw_data \in RawInputs :
          Finish("process_pydata_schedule", raw_data, 0, NoEnv,
                 process_pydata_schedule(raw_data))

\* the schedule function of the PyData server
ScheduleNext == CallProcessPydataSchedule \/ Respond

SpecSchedule == Init /\ [][ScheduleNext]_vars

---------------------------------------------------------------------------
(* Properties *)

\* s is empty after trimming
Blank(s) == \A i \in 1..Len(s) : s[i] \in Whitespace

\* the titles get_article_summary was called with, in order
SummaryRequests ==
    LET at == {i \in 1..Len(log) : log[i].api = "get_article_summary"}
        nth(k) == CHOOSE i \in at : Cardinality({j \in at : j <= i}) = k
    IN  [k \in 1..Cardinality(at) |-> log[nth(k)].arg]

\* the request is a content request for an existing article with valid arguments
ContentServed ==
    /\ call.tool \in {"get_article_content", "get_article_with_progress"}
    /\ ~Blank(call.arg)
    /\ call.n \in 100..10000
    /\ env.page.kind = "present"
    /\ env.page.text # <<>>

\* the article text is longer than max_length
ContentTooLong == ContentServed /\ Len(env.page.text) > call.n

\* 0-based index of the last "." or newline among the first max_length
\* characters of the article text, -1 when there is none
LastBreak ==
    LET text == env.page.text
        at == {i \in 0..(call.n - 1) : i < Len(text) /\ text[i + 1] \in {".", "\n"}}
    IN  IF at = {} THEN 0 - 1 ELSE CHOOSE i \in at : \A j \in at : j <= i

\* the text "[Content truncated...]"
TruncatedTag ==
    <<"[", "C", "o", "n", "t", "e", "n", "t", " ", "t", "r", "u", "n", "c", "a", "t",
    "e", "d", ".", ".", ".", "]">>

\* C1: search_wikipedia fails with an invalid-argument ValueError and issues no
\* outbound request when the limit is outside 1..10 or the query is empty after
\* trimming; otherwise it issues exactly one outbound request.
C1_SearchValidation ==
    call.tool = "search_wikipedia" =>
        IF Blank(call.arg) \/ call.n \notin 1..10
        THEN /\ outcome.kind = "raise"
             /\ outcome.exc = "ValueError"
             /\ outcome.value \in {MsgQueryEmpty, MsgLimitRange}
             /\ CountCalls(log, "requests.get") = 0
        ELSE CountCalls(log, "requests.get") = 1

\* a search with limit 11 and a usable query was rejected without a request
C1_Witness ==
    /\ call.tool = "search_wikipedia"
    /\ call.n = 11
    /\ ~Blank(call.arg)
    /\ outcome.kind = "raise"
    /\ outcome.value = MsgLimitRange
    /\ log = <<>>

\* C2: get_article_summary fails with an invalid-argument ValueError before any
\* article-source lookup when the sentence count is outside 1..10 or the title is
\* empty or whitespace only.
C2_SummaryValidation ==
    (call.tool = "get_article_summary" /\ (Blank(call.arg) \/ call.n \notin 1..10)) =>
        /\ outcome.kind = "raise"
        /\ outcome.exc = "ValueError"
        /\ outcome.value \in {MsgTitleEmpty, MsgSentencesRange}
        /\ CountCalls(log, "wiki.page") = 0

\* a whitespace-only title with a valid sentence count was rejected, no lookup made
C2_Witness ==
    /\ call.tool = "get_article_summary"
    /\ call.arg # <<>>
    /\ Blank(call.arg)
    /\ call.n \in 1..10
    /\ outcome.kind = "raise"
    /\ outcome.value = MsgTitleEmpty
    /\ log = <<>>

\* C3: an existing article whose non-empty text is no longer than max_length is
\* returned exactly as it is, by get_article_content and get_article_with_progress.
C3_ShortContentUnchanged ==
    (ContentServed /\ Len(env.page.text) <= call.n) =>
        /\ outcome.kind = "return"
        /\ outcome.value = env.page.text

\* a text of exactly max_length characters was returned unchanged
C3_Witness ==
    /\ ContentServed
    /\ call.tool = "get_article_with_progress"
    /\ Len(env.page.text) = call.n
    /\ outcome.kind = "return"
    /\ outcome.value = env.page.text

\* C4 as stated: a truncated result is at most max_length + 24 characters long
\* (24 being the length of the marker), in both branches.
C4_MarkerBound ==
    ContentTooLong =>
        /\ outcome.kind = "return"
        /\ Len(outcome.value) <= call.n + 24

\* C4 amended: a truncated result is at most max_length + 24 characters long in
\* the clean-break branch and exactly max_length + 27 characters long (the
\* prefix, "..." and the marker) in the hard-cut branch.
C4_MarkerBoundAmended ==
    ContentTooLong =>
        /\ outcome.kind = "return"
        /\ IF 5 * LastBreak > 4 * call.n
           THEN Len(outcome.value) <= call.n + 24
           ELSE Len(outcome.value) = call.n + 27

\* a hard cut happened: the result is max_length + 27 characters long
C4_Witness ==
    /\ ContentTooLong
    /\ LastBreak = 0 - 1
    /\ Len(outcome.value) = call.n + 27

\* C5: a truncated result ends with "[Content truncated...]" in both branches.
C5_EndsWithMarker ==
    ContentTooLong =>
        /\ outcome.kind = "return"
        /\ EndsWith(outcome.value, TruncatedTag)

\* a hard cut of get_article_content ends with the marker text
C5_Witness ==
    /\ ContentTooLong
    /\ call.tool = "get_article_content"
    /\ 5 * LastBreak <= 4 * call.n
    /\ EndsWith(outcome.value, TruncatedTag)

\* C6: for a text longer than max_length, with bp the index of the last "." or
\* newline within the first max_length characters: if bp is strictly greater than
\* 80% of max_length the result is the text up to and including bp followed by
\* the marker, otherwise the first max_length characters, "..." and the marker.
C6_TruncationPolicy ==
    ContentTooLong =>
        /\ outcome.kind = "return"
        /\ outcome.value =
             IF 5 * LastBreak > 4 * call.n
             THEN SubSeq(env.page.text, 1, LastBreak + 1) \o TruncationMarker
             ELSE SubSeq(env.page.text, 1, call.n) \o <<".", ".", ".">> \o TruncationMarker

\* the break point sits exactly at 80% of max_length and the text was hard cut
C6_Witness ==
    /\ ContentTooLong
    /\ 5 * LastBreak = 4 * call.n
    /\ outcome.value =
         SubSeq(env.page.text, 1, call.n) \o <<".", ".", ".">> \o TruncationMarker

\* the prompt of interactive_search was answered over two or more candidates
PromptAnswered ==
    /\ call.tool = "interactive_search"
    /\ ~Blank(call.arg)
    /\ env.search.kind = "ok"
    /\ Len(env.search.pages) >= 2

\* C7: an accepted response over two or more candidates selects the first
\* candidate whose title holds the trimmed response, whatever the case; when no
\* title matches and the response is an integer k in 1..N it selects the k-th
\* candidate; otherwise no summary is fetched and the invalid-selection message
\* naming "number 1-N" is returned.
C7_SelectionPolicy ==
    (PromptAnswered /\ env.prompt.action = "accept") =>
        LET candidates == env.search.pages
            response == Strip(env.prompt.data)
            holding == {i \in 1..Len(candidates) :
                          Contains(Lower(candidates[i]), Lower(response))}
            number == ParseInt(response)
        IN  IF holding # {}
            THEN SummaryRequests =
                   <<candidates[CHOOSE i \in holding : \A j \in holding : i <= j]>>
            ELSE IF number.ok /\ number.value \in 1..Len(candidates)
            THEN SummaryRequests = <<candidates[number.value]>>
            ELSE /\ SummaryRequests = <<>>
                 /\ CountCalls(log, "wiki.page") = 0
                 /\ outcome.kind = "return"
                 /\ outcome.value =
                      PrefixInvalidSelection \o response \o MidInvalidSelection
                      \o IntToStr(Len(candidates)) \o <<".">>

\* a response in another case than the titles selected the second candidate,
\* the first one that holds it
C7_Witness ==
    /\ PromptAnswered
    /\ env.prompt.action = "accept"
    /\ env.prompt.data = <<" ", "B", " ">>
    /\ Len(env.search.pages) = 3
    /\ env.search.pages[1] = <<"P", "y">>
    /\ env.search.pages[2] = <<"A", "b">>
    /\ env.search.pages[3] = <<"A", "b">>
    /\ SummaryRequests = <<<<"A", "b">>>>

\* C8: interactive_search prompts if and only if the search returned two or more
\* titles; with one title it returns what get_article_summary yields for it,
\* without prompting; with none it returns the no-results message without
\* prompting and without a summary lookup.
C8_PromptOnlyWhenAmbiguous ==
    call.tool = "interactive_search" =>
        LET found == ~Blank(call.arg) /\ env.search.kind = "ok"
            titles == env.search.pages
            direct == get_article_summary(titles[1], 3, env.page)
        IN  /\ CountCalls(log, "ctx.elicit") >= 1 <=> (found /\ Len(titles) >= 2)
            /\ CountCalls(log, "ctx.elicit") <= 1
            /\ (found /\ Len(titles) = 1) =>
                  /\ SummaryRequests = <<titles[1]>>
                  /\ outcome = [kind |-> direct.kind, exc |-> direct.exc,
                                value |-> direct.value]
            /\ (found /\ Len(titles) = 0) =>
                  /\ outcome.kind = "return"
                  /\ outcome.value = PrefixNoResults \o call.arg \o Quote
                  /\ SummaryRequests = <<>>
                  /\ CountCalls(log, "wiki.page") = 0

\* a single search result was summarised without a prompt
C8_Witness ==
    /\ call.tool = "interactive_search"
    /\ env.search.kind = "ok"
    /\ Len(env.search.pages) = 1
    /\ outcome.kind = "return"
    /\ outcome.value = <<"a", ".", " ", "b", ".">>
    /\ CountCalls(log, "ctx.elicit") = 0
    /\ CountCalls(log, "wiki.page") = 1

\* C9: when the prompt reports any action other than accept, interactive_search
\* returns a message that holds "cancelled", raises nothing and fetches no summary.
C9_DeclineCancels ==
    (PromptAnswered /\ env.prompt.action # "accept") =>
        /\ outcome.kind = "return"
        /\ Contains(Lower(outcome.value), <<"c", "a", "n", "c", "e", "l", "l", "e", "d">>)
        /\ SummaryRequests = <<>>
        /\ CountCalls(log, "wiki.page") = 0

\* the prompt was shown and cancelled
C9_Witness ==
    /\ PromptAnswered
    /\ env.prompt.action = "cancel"
    /\ CountCalls(log, "ctx.elicit") = 1
    /\ outcome.kind = "return"
    /\ outcome.value = MsgCancelled

\* C10: when the article source reports that a non-empty title does not exist,
\* get_article_summary, get_article_content, get_article_info and smart_summarize
\* fail with the not-found ValueError that holds the requested title, not
\* re-wrapped into another message.
C10_NotFoundSurfaces ==
    ( /\ call.tool \in {"get_article_summary", "get_article_content",
                        "get_article_info", "smart_summarize"}
      /\ ~Blank(call.arg)
      /\ CountCalls(log, "wiki.page") = 1
      /\ env.page.kind = "absent" ) =>
        /\ outcome.kind = "raise"
        /\ outcome.exc = "ValueError"
        /\ outcome.value = PrefixArticle \o call.arg \o SuffixNotFound
        /\ Contains(outcome.value, call.arg)

\* get_article_info looked a title up that does not exist and raised not-found
C10_Witness ==
    /\ call.tool = "get_article_info"
    /\ call.arg = <<" ", "A", "b", " ">>
    /\ env.page.kind = "absent"
    /\ log = <<Event("wiki.page", <<"A", "b">>)>>
    /\ outcome.kind = "raise"
    /\ outcome.value = PrefixArticle \o call.arg \o SuffixNotFound

\* the lookup of one of the three article tools of the basic server raised
LookupFailed ==
    /\ call.tool \in {"get_article_summary", "get_article_content", "get_article_info"}
    /\ CountCalls(log, "wiki.page") >= 1
    /\ env.page.kind = "error"

\* the prefix the tool puts before the text of a wrapped exception
FailedPrefix ==
    CASE call.tool = "get_article_summary" -> PrefixFailedSummary
      [] call.tool = "get_article_content" -> PrefixFailedContent
      [] OTHER -> PrefixFailedInfo

\* C11: every exception the article source raises during the lookup of
\* get_article_summary, get_article_content or get_article_info reaches the
\* caller as one ValueError "Failed to get article ...: <text>", whatever its
\* type and text, and the lookup is made once.
C11_SourceErrorsWrapped ==
    LookupFailed =>
        /\ outcome.kind = "raise"
        /\ outcome.exc = "ValueError"
        /\ outcome.value = FailedPrefix \o env.page.err
        /\ CountCalls(log, "wiki.page") = 1

\* the fragments of s between its periods, trimmed, the empty ones dropped
Fragments(s) ==
    LET cuts == {0, Len(s) + 1} \cup {i \in 1..Len(s) : s[i] = "."}
        nth(k) == CHOOSE c \in cuts : Cardinality({d \in cuts : d < c}) = k - 1
        piece(k) == Strip(SubSeq(s, nth(k) + 1, nth(k + 1) - 1))
        kept == {k \in 1..(Cardinality(cuts) - 1) : piece(k) # <<>>}
        pick(j) == CHOOSE k \in kept : Cardinality({l \in kept : l < k}) = j - 1
    IN  [j \in 1..Cardinality(kept) |-> piece(pick(j))]

\* the first n fragments, each followed by ". " but the last, followed by "."
RECURSIVE Sentences(_, _)
Sentences(fragments, n) ==
    IF fragments = <<>> \/ n = 0 THEN <<>>
    ELSE IF Len(fragments) = 1 \/ n = 1 THEN fragments[1] \o <<".">>
    ELSE fragments[1] \o <<".", " ">> \o Sentences(Tail(fragments), n - 1)

\* get_article_summary served an existing article with a non-empty raw summary
SummaryServed ==
    /\ call.tool = "get_article_summary"
    /\ ~Blank(call.arg)
    /\ call.n \in 1..10
    /\ env.page.kind = "present"
    /\ env.page.summary # <<>>

\* C12 as stated: for every non-empty raw summary and every N in 1..10 the
\* result is the first N non-empty trimmed fragments joined with ". " and it
\* ends with exactly one period.
C12_SummarySentences ==
    SummaryServed =>
        /\ outcome.kind = "return"
        /\ outcome.value = Sentences(Fragments(env.page.summary), call.n)
        /\ EndsWith(outcome.value, <<".">>)
        /\ ~EndsWith(outcome.value, <<".", ".">>)

\* C12 amended: as stated when the raw summary has a non-empty fragment;
\* a raw summary of periods and whitespace alone yields the empty string.
C12_SummarySentencesAmended ==
    SummaryServed =>
        /\ outcome.kind = "return"
        /\ IF Fragments(env.page.summary) = <<>>
           THEN outcome.value = <<>>
           ELSE /\ outcome.value = Sentences(Fragments(env.page.summary), call.n)
                /\ EndsWith(outcome.value, <<".">>)
                /\ ~EndsWith(outcome.value, <<".", ".">>)

\* five fragments, one of them blank, were cut to the first two sentences
C12_Witness ==
    /\ SummaryServed
    /\ call.n = 2
    /\ env.page.summary = <<"a", ".", "b", ".", " ", ".", "c", ".", "d", ".", "e">>
    /\ outcome.kind = "return"
    /\ outcome.value = <<"a", ".", " ", "b", ".">>

\* the events of the log made through api, in order
EventsOf(api) ==
    LET at == {i \in 1..Len(log) : log[i].api = api}
        nth(k) == CHOOSE i \in at : Cardinality({j \in at : j <= i}) = k
    IN  [k \in 1..Cardinality(at) |-> log[nth(k)]]

\* C13: smart_summarize on an existing article sends the full raw text of the
\* article to the text generator exactly once, with an output budget of 800
\* tokens, and returns the generated text unchanged; for an article that does
\* not exist the text generator is never called.
C13_SampleOnceVerbatim ==
    call.tool = "smart_summarize" =>
        /\ env.page.kind = "present" =>
              /\ Len(EventsOf("ctx.sample")) = 1
              /\ EventsOf("ctx.sample")[1].arg.text = env.page.text
              /\ EventsOf("ctx.sample")[1].arg.max_tokens = 800
              /\ env.sample.kind = "ok" =>
                    /\ outcome.kind = "return"
                    /\ outcome.value = env.sample.text
        /\ env.page.kind = "absent" =>
              /\ EventsOf("ctx.sample") = <<>>
              /\ outcome.kind = "raise"

\* an article whose text differs from its summary was summarised
C13_Witness ==
    /\ call.tool = "smart_summarize"
    /\ env.page.kind = "present"
    /\ env.page.text = <<"a", "b", ".">>
    /\ env.page.summary = <<"a">>
    /\ env.sample.kind = "ok"
    /\ outcome.kind = "return"
    /\ outcome.value = <<"z", ".">>

\* C14: smart_summarize with a title that is empty or whitespace only fails
\* with the invalid-argument ValueError before any external call: no context
\* message, no lookup, no text-generation request.
C14_SmartTitleValidated ==
    (call.tool = "smart_summarize" /\ Blank(call.arg)) =>
        /\ outcome.kind = "raise"
        /\ outcome.exc = "ValueError"
        /\ outcome.value = MsgTitleEmpty
        /\ log = <<>>

\* the progress values reported, in order
Reported ==
    [k \in 1..Len(EventsOf("ctx.report_progress")) |->
        EventsOf("ctx.report_progress")[k].arg.progress]

\* the position of the last progress report in the log, 0 if there is none
LastReportAt ==
    Max(0, CHOOSE i \in 0..Len(log) :
              /\ i > 0 => log[i].api = "ctx.report_progress"
              /\ \A j \in (i + 1)..Len(log) : log[j].api # "ctx.report_progress")

\* C15: the progress values get_article_with_progress reports are strictly
\* increasing and drawn from 0, 25, 50, 75, 100, each of a total of 100; 75 is
\* reported only when the content is truncated; a successful return is
\* preceded by at least two reports, the last of them 100 of 100.
C15_ProgressSequence ==
    call.tool = "get_article_with_progress" =>
        /\ \A k \in 1..Len(Reported) :
              /\ Reported[k] \in {0, 25, 50, 75, 100}
              /\ EventsOf("ctx.report_progress")[k].arg.total = 100
              /\ k > 1 => Reported[k - 1] < Reported[k]
        /\ (\E k \in 1..Len(Reported) : Reported[k] = 75) =>
              /\ env.page.kind = "present"
              /\ Len(env.page.text) > call.n
              /\ outcome.kind = "return"
              /\ outcome.value # env.page.text
        /\ outcome.kind = "return" =>
              /\ Len(Reported) >= 2
              /\ Reported[Len(Reported)] = 100
              /\ \A j \in (LastReportAt + 1)..Len(log) : log[j].api = "ctx.info"

\* a truncated article was returned after all five reports
C15_Witness ==
    /\ call.tool = "get_article_with_progress"
    /\ outcome.kind = "return"
    /\ Len(env.page.text) > call.n
    /\ Reported = <<0, 25, 50, 75, 100>>

\* C16: get_article_info on an existing article returns exactly the fields
\* title, url, summary_length, content_length, categories and links_count,
\* categories holding the first min(10, n) of the article's n categories in
\* the order of the source; an empty title fails with the invalid-argument
\* error before any lookup.
C16_InfoFields ==
    call.tool = "get_article_info" =>
        /\ (~Blank(call.arg) /\ env.page.kind = "present") =>
              /\ outcome.kind = "return"
              /\ DOMAIN outcome.value =
                    {"title", "url", "summary_length", "content_length",
                     "categories", "links_count"}
              /\ LET all == env.page.categories
                     shown == IF Len(all) < 10 THEN Len(all) ELSE 10
                 IN  /\ Len(outcome.value.categories) = shown
                     /\ \A i \in 1..shown : outcome.value.categories[i] = all[i]
        /\ Blank(call.arg) =>
              /\ outcome.kind = "raise"
              /\ outcome.exc = "ValueError"
              /\ outcome.value = MsgTitleEmpty
              /\ CountCalls(log, "wiki.page") = 0

\* an article of twelve categories was described with its first ten
C16_Witness ==
    /\ call.tool = "get_article_info"
    /\ env.page.kind = "present"
    /\ Len(env.page.categories) = 12
    /\ outcome.kind = "return"
    /\ Len(outcome.value.categories) = 10
    /\ outcome.value.categories[10] = <<"c", "1", "0">>

\* the last iteration of the chat loop read input and got it
InputRead == turn.branch \notin {"none", "interrupt"} \/ turn.runs = 1

\* the last input is one of the commands, in any case and with any padding
IsCommand(commands) == Lower(Strip(turn.input)) \in commands

\* the last iteration was interrupted from the keyboard
Interrupted == turn.branch = "interrupt"

\* C17: a quit, exit or q input (in any case, with any surrounding
\* whitespace) and a keyboard interruption, while the input or the agent is
\* awaited, terminate the chat loop; once it has terminated no input is read
\* and the agent is not called.
C17_QuitTerminates ==
    /\ []((Interrupted \/ (InputRead /\ IsCommand(QuitCommands))) => loop = "terminated")
    /\ [][loop = "terminated" => (io' = io /\ loop' = "terminated")]_vars

\* after an answered question the padded upper-case q ended the session
C17_Witness ==
    /\ loop = "terminated"
    /\ turn.branch = "quit"
    /\ turn.input = <<" ", "Q", " ">>
    /\ io.runs >= 1
    /\ transcript # <<>>

\* C18: a quit, history or clear command (in any case, trimmed) and an input
\* that is empty after trimming make no call of the agent; every other input
\* makes exactly one.
C18_AgentCalledOncePerQuestion ==
    InputRead =>
        IF \/ IsCommand(QuitCommands \cup HistoryCommands \cup ClearCommands)
           \/ Blank(turn.input)
        THEN turn.runs = 0
        ELSE turn.runs = 1

\* an input that holds a command word among others was forwarded once
C18_Witness ==
    /\ turn.input = <<" ", "Q", "u", "i", "t", " ", "n", "o", "w", " ">>
    /\ turn.branch = "answered"
    /\ turn.runs = 1
    /\ io.runs = 1
    /\ io.reads = 3

\* the user prompts and the replies of a list of messages, in order
RECURSIVE Dialogue(_)
Dialogue(messages) ==
    IF messages = <<>> THEN <<>>
    ELSE LET parts == Head(messages).parts
             said == SelectSeq(parts, LAMBDA p :
                        /\ p.part \in {"UserPromptPart", "TextPart"}
                        /\ p.content # <<>>)
         IN  [i \in 1..Len(said) |->
                 [role |-> IF said[i].part = "UserPromptPart" THEN "user" ELSE "assistant",
                  content |-> said[i].content]]
             \o Dialogue(Tail(messages))

\* the answered turns as alternating user and assistant entries
Turns(answered) ==
    [i \in 1..(2 * Len(answered)) |->
        IF i % 2 = 1
        THEN [role |-> "user", content |-> answered[(i + 1) \div 2].user]
        ELSE [role |-> "assistant", content |-> answered[i \div 2].assistant]]

\* a occurs in b as a subsequence
RECURSIVE IsSubsequence(_, _)
IsSubsequence(a, b) ==
    IF a = <<>> THEN TRUE
    ELSE IF b = <<>> THEN FALSE
    ELSE IF Head(a) = Head(b) THEN IsSubsequence(Tail(a), Tail(b))
    ELSE IsSubsequence(a, Tail(b))

\* the turns answered before the last iteration ran the agent
EarlierTurns ==
    IF turn.branch = "answered"
    THEN SubSeq(transcript, 1, Len(transcript) - 1)
    ELSE transcript

\* C19: the message history passed with an input forwarded to the agent holds
\* every turn answered earlier in the session, since its start or the last
\* clear command, in order.
C19_HistoryHoldsEarlierTurns ==
    turn.runs = 1 => IsSubsequence(Turns(EarlierTurns), Dialogue(turn.history))

\* C20: the history command shows the accumulated transcript: one row for
\* every answered user turn and assistant turn since the session start or the
\* last clear command, in chronological order, however many turns there were.
C20_HistoryShowsTranscript ==
    turn.branch = "history" =>
        IF transcript = <<>> THEN turn.shown = NoHistoryYet
        ELSE /\ turn.shown.table
             /\ turn.shown.rows =
                    [i \in 1..(2 * Len(transcript)) |->
                        [role |-> RoleTitle(Turns(transcript)[i].role),
                         content |-> Shorten(Turns(transcript)[i].content)]]

\* C21: after an exception of the agent call other than a keyboard
\* interruption the error is reported to the user and the chat loop awaits
\* input again, in cli_client.py and in 03_polish.py alike; no number of
\* failures in a row ends the session.
C21_FailuresNotFatal ==
    turn.branch = "failed" =>
        /\ turn.runs = 1
        /\ loop = "awaiting"
        /\ turn.printed = "Please try rephrasing your question or check your connection."

\* the agent failed twice in a row and the loop still awaits input
C21_Witness ==
    /\ turn.branch = "failed"
    /\ io = [reads |-> 2, runs |-> 2]
    /\ last_result = NoResult
    /\ cleared = "no"
    /\ loop = "awaiting"

\* C23: after a clear command (clear, clear history, reset) and until the next
\* answered agent call, an input forwarded to the agent goes with an empty
\* message history and a history command reports that there is no history.
C23_ClearEmptiesHistory ==
    /\ [](cleared # "no" =>
            /\ last_result = NoResult
            /\ turn.runs = 1 => turn.history = <<>>
            /\ turn.branch = "history" => ~turn.shown.table)
    /\ [][(cleared # "no" /\ io'.runs = io.runs + 1) => turn'.history = <<>>]_vars

\* a history command came after a clear command that dropped answered turns
C23_Witness ==
    /\ cleared = "dropped"
    /\ turn.branch = "history"
    /\ turn.shown = NoHistoryYet
    /\ io.runs >= 1

\* C28: a failed agent call leaves last_result as it was, so the history the
\* next forwarded input would go with and the output a history command would
\* give are those of the session without the failed input.
C28_FailureKeepsState ==
    [][(io'.runs = io.runs + 1 /\ turn'.branch = "failed") =>
          /\ last_result' = last_result
          /\ get_message_history_for_next_run' = get_message_history_for_next_run
          /\ display_chat_history(last_result)' = display_chat_history(last_result)]_vars

\* the agent failed after two answered turns, which are still stored
C28_Witness ==
    /\ turn.branch = "failed"
    /\ Len(transcript) = 2
    /\ last_result # NoResult
    /\ Len(all_messages(last_result)) >= 4
    /\ loop = "awaiting"

\* search_wikipedia got past its argument checks
SearchRequested ==
    /\ call.tool = "search_wikipedia"
    /\ ~Blank(call.arg)
    /\ call.n \in 1..10

\* the failure the caller of search_wikipedia sees: one ValueError with a
\* readable message, after one request
SearchFailedOnce ==
    /\ outcome.kind = "raise"
    /\ outcome.exc = "ValueError"
    /\ \/ outcome.value = PrefixSearchFailedRequest \o env.search.err
       \/ outcome.value = PrefixSearchFailed \o env.search.err
    /\ CountCalls(log, "requests.get") = 1

\* the titles were returned in the order the service listed them
SearchReturnedListed ==
    /\ outcome.kind = "return"
    /\ outcome.value = env.search.pages
    /\ CountCalls(log, "requests.get") = 1

\* C22 as stated: when the one request of search_wikipedia fails (network
\* error, non-success status, malformed response body) the call fails with
\* one ValueError that carries a readable message and no second request is
\* made; on success the titles come back in the order the service listed them.
C22_SearchFailsOnce ==
    SearchRequested =>
        IF env.search.kind = "ok" /\ env.search.stage = "done"
        THEN SearchReturnedListed
        ELSE SearchFailedOnce

\* C22 amended: the call fails that way when the request, the status check or
\* the reading of the body raises; a body that has no "pages" key is taken for
\* an empty result and the empty list is returned.
C22_SearchFailsOnceAmended ==
    SearchRequested =>
        /\ env.search.kind # "ok" => SearchFailedOnce
        /\ (env.search.kind = "ok" /\ env.search.stage = "done") => SearchReturnedListed
        /\ env.search.stage = "no pages key" =>
              /\ outcome.kind = "return"
              /\ outcome.value = <<>>
              /\ CountCalls(log, "requests.get") = 1

\* a page list that lacks a title failed the search after its one request
C22_Witness ==
    /\ SearchRequested
    /\ env.search.kind = "Exception"
    /\ env.search.stage = "pages"
    /\ outcome.kind = "raise"
    /\ outcome.value = PrefixSearchFailed \o env.search.err
    /\ CountCalls(log, "requests.get") = 1
    /\ CountCalls(log, "logger.error") = 1

\* C25: for every valid call search_wikipedia returns at most `limit` titles,
\* whatever list of pages the search service answers with.
C25_AtMostLimitTitles ==
    (SearchRequested /\ outcome.kind = "return") => Len(outcome.value) <= call.n

\* the accepted response is a decimal number
DecimalResponse ==
    LET response == Strip(env.prompt.data)
    IN  response # <<>> /\ \A i \in 1..Len(response) : IsDigit(response[i])

\* the prompt listed two or more candidates and the accepted response is the
\* decimal number of one of them
NumberChosen ==
    /\ PromptAnswered
    /\ env.prompt.action = "accept"
    /\ DecimalResponse
    /\ DigitsValue(Strip(env.prompt.data)) \in 1..Len(env.search.pages)

\* what interactive_search hands back when the summary of title is fetched
\* from inside the number branch: the summary, or the invalid-selection
\* message when the summary tool raises ValueError
NumberBranchOutcome(title) ==
    LET r == get_article_summary(title, DefaultSentences, env.page)
    IN  IF r.kind = "raise" /\ r.exc = "ValueError"
        THEN /\ outcome.kind = "return"
             /\ outcome.value = InvalidSelectionMessage(Strip(env.prompt.data),
                                                        Len(env.search.pages))
        ELSE /\ outcome.kind = r.kind
             /\ outcome.exc = r.exc
             /\ outcome.value = r.value

\* C24 as stated: when the prompt lists N >= 2 candidates and the accepted
\* response is the decimal number k, 1 <= k <= N, the summary fetched and
\* returned is that of the k-th listed candidate, for every candidate list.
C24_NumberSelectsKth ==
    NumberChosen =>
        LET k == DigitsValue(Strip(env.prompt.data))
        IN  SummaryRequests = <<env.search.pages[k]>>

\* C24 amended: it is the k-th candidate when no listed title holds the
\* response as a substring; when one does, the first such title is taken,
\* whatever its number.
C24_NumberSelectsKthAmended ==
    NumberChosen =>
        LET k == DigitsValue(Strip(env.prompt.data))
            candidates == env.search.pages
            holding == {i \in 1..Len(candidates) :
                          Contains(Lower(candidates[i]), Strip(env.prompt.data))}
        IN  IF holding = {}
            THEN /\ SummaryRequests = <<candidates[k]>>
                 /\ NumberBranchOutcome(candidates[k])
            ELSE \E i \in holding :
                    /\ \A j \in holding : i <= j
                    /\ SummaryRequests = <<candidates[i]>>

\* the response 3 over three candidates fetched the summary of the third
C24_Witness ==
    /\ NumberChosen
    /\ env.prompt.data = <<"3">>
    /\ env.search.pages = <<<<"P", "y">>, <<"p", "y", " ", "2">>, <<"A", "b">>>>
    /\ SummaryRequests = <<<<"A", "b">>>>
    /\ outcome.kind = "return"
    /\ outcome.value = <<"a", ".", " ", "b", ".">>

\* C27: an accepted response that is empty after trimming resolves to the
\* first candidate of the list, the empty string being a substring of every
\* title: the outcome is that of the summary tool for the first candidate, not
\* the invalid-selection message.
C27_EmptyResponseTakesFirst ==
    (PromptAnswered /\ env.prompt.action = "accept" /\ Blank(env.prompt.data)) =>
        LET r == get_article_summary(env.search.pages[1], DefaultSentences, env.page)
        IN  /\ SummaryRequests = <<env.search.pages[1]>>
            /\ outcome.kind = r.kind
            /\ outcome.exc = r.exc
            /\ outcome.value = r.value

\* a response of one blank over three candidates returned the summary of the first
C27_Witness ==
    /\ PromptAnswered
    /\ env.prompt.action = "accept"
    /\ env.prompt.data = <<" ">>
    /\ env.search.pages = <<<<"A", "b">>, <<"P", "y">>, <<"P", "y">>>>
    /\ SummaryRequests = <<<<"A", "b">>>>
    /\ outcome.kind = "return"
    /\ outcome.value = <<"a", ".", " ", "b", ".">>

\* the positions in the log of the calls made through api
Positions(api) == {i \in 1..Len(log) : log[i].api = api}

\* every call of a comes before every call of b
Before(a, b) == \A i \in Positions(a), j \in Positions(b) : i < j

\* C30: an interactive_search invocation makes at most one search, always
\* with the limit 8, then at most one elicitation, then at most one summary
\* retrieval, in this order; a query that is empty after trimming fails with
\* ValueError before any of them and before any context log message.
C30_InteractiveCallOrder ==
    call.tool = "interactive_search" =>
        /\ Cardinality(Positions("requests.get")) <= 1
        /\ \A i \in Positions("requests.get") : log[i].arg.limit = 8
        /\ Cardinality(Positions("ctx.elicit")) <= 1
        /\ Cardinality(Positions("get_article_summary")) <= 1
        /\ Cardinality(Positions("wiki.page")) <= 1
        /\ Before("requests.get", "ctx.elicit")
        /\ Before("requests.get", "get_article_summary")
        /\ Before("ctx.elicit", "get_article_summary")
        /\ Before("get_article_summary", "wiki.page")
        /\ Blank(call.arg) =>
              /\ outcome.kind = "raise"
              /\ outcome.exc = "ValueError"
              /\ outcome.value = MsgQueryEmpty
              /\ log = <<>>

\* a search, a prompt and a summary retrieval were made, one of each
C30_Witness ==
    /\ call.tool = "interactive_search"
    /\ Cardinality(Positions("requests.get")) = 1
    /\ Cardinality(Positions("ctx.elicit")) = 1
    /\ Cardinality(Positions("get_article_summary")) = 1
    /\ Cardinality(Positions("wiki.page")) = 1
    /\ outcome.kind = "return"

\* one of the two content tools was called for an article the source answered for
ContentCompared ==
    /\ call.tool \in {"get_article_content", "get_article_with_progress"}
    /\ env.page.kind \in {"absent", "present"}

\* what the other content tool yields for the same title, max_length and article
OtherContentTool ==
    IF call.tool = "get_article_content"
    THEN get_article_with_progress(call.arg, call.n, env.page)
    ELSE get_article_content(call.arg, call.n, env.page)

\* C29: for every title, max_length and article (absent, empty text, any
\* text) get_article_with_progress fails with ValueError exactly when
\* get_article_content does, and when both succeed they return the same string.
C29_ContentToolsAgree ==
    ContentCompared =>
        /\ (outcome.kind = "raise") <=> (OtherContentTool.kind = "raise")
        /\ outcome.kind = "raise" =>
              (outcome.exc = "ValueError" /\ OtherContentTool.exc = "ValueError")
        /\ outcome.kind = "return" => outcome.value = OtherContentTool.value

\* a text with its last break at exactly 80% of max_length was cut hard by
\* both tools
C29_Witness ==
    /\ ContentCompared
    /\ call.tool = "get_article_with_progress"
    /\ call.n = 100
    /\ Len(env.page.text) = 101
    /\ LastBreak = 80
    /\ outcome.kind = "return"
    /\ outcome.value = OtherContentTool.value
    /\ Len(outcome.value) = 127

\* the value of a key of a dict, and whether the dict has it
HasField(d, key) == d.t = "dict" /\ \E i \in 1..Len(d.v) : d.v[i].k = key

Field(d, key) == d.v[CHOOSE i \in 1..Len(d.v) : d.v[i].k = key].v

\* a talk with a list of speakers, each a dict
WellFormedTalk(talk) ==
    /\ HasField(talk, "persons")
    /\ Field(talk, "persons").t = "list"
    /\ \A i \in 1..Len(Field(talk, "persons").v) : Field(talk, "persons").v[i].t = "dict"

\* a day whose rooms are a dict from a room's name to its list of talks
WellFormedDay(day) ==
    /\ HasField(day, "rooms")
    /\ Field(day, "rooms").t = "dict"
    /\ \A r \in 1..Len(Field(day, "rooms").v) :
          LET talks == Field(day, "rooms").v[r].v
          IN  /\ talks.t = "list"
              /\ \A i \in 1..Len(talks.v) : WellFormedTalk(talks.v[i])

\* the expected nested structure: schedule, conference, days, rooms, talks
\* in a room, persons
WellFormedExport(raw_data) ==
    /\ HasField(raw_data, "schedule")
    /\ HasField(Field(raw_data, "schedule"), "conference")
    /\ HasField(Field(Field(raw_data, "schedule"), "conference"), "days")
    /\ LET days == Field(Field(Field(raw_data, "schedule"), "conference"), "days")
       IN  /\ days.t = "list"
           /\ \A d \in 1..Len(days.v) : WellFormedDay(days.v[d])

RECURSIVE Concat(_)
Concat(seqs) == IF seqs = <<>> THEN <<>> ELSE Head(seqs) \o Concat(Tail(seqs))

\* room key and title of every talk of a well-formed export, in day/room/talk
\* order
ListedTalks(raw_data) ==
    LET days == Field(Field(Field(raw_data, "schedule"), "conference"), "days").v
    IN  Concat([d \in 1..Len(days) |->
            LET rooms == Field(days[d], "rooms").v
            IN  Concat([r \in 1..Len(rooms) |->
                    [i \in 1..Len(rooms[r].v.v) |->
                        <<rooms[r].k, Field(rooms[r].v.v[i], "title")>>]])])

\* room and title of the returned records
ReturnedTalks == [i \in 1..Len(outcome.value) |-> <<outcome.value[i].room, outcome.value[i].title>>]

ScheduleProcessed == call.tool = "process_pydata_schedule" /\ outcome.kind # "none"

\* C26: process_pydata_schedule never raises; for an input that lacks the
\* expected nested structure it returns an empty list, and for a well-formed
\* input it returns one record per talk, in day/room/talk order, with the room
\* field set to the room's key.
C26_ScheduleNeverRaises ==
    ScheduleProcessed =>
        /\ outcome.kind = "return"
        /\ ~WellFormedExport(call.arg) => outcome.value = <<>>
        /\ WellFormedExport(call.arg) => ReturnedTalks = ListedTalks(call.arg)

=============================================================================
